---- MODULE Spec2Model ----
(***************************************************************************)
(* Model of the image processing engine (src/processor.py):                *)
(*   - process_image / get_output_dimensions (transformation pipeline and  *)
(*     dimension predictor), stepped one pass at a time over a heap of     *)
(*     PIL image objects, so that aliasing between the caller's buffer and *)
(*     the local variable `img` is visible;                                *)
(*   - collect_images / _scan_directory (input discovery) over a modelled  *)
(*     file system with directories, ZIP archives and temporary            *)
(*     extraction directories.                                             *)
(* Fractional settings are held in hundredths (0.97 -> 97, 1.0 -> 100).    *)
(* Pillow's filters are library code: their pixel arithmetic is kept as    *)
(* the sequence of operations applied to a channel; only MinFilter(3) on   *)
(* a binary alpha channel is computed pixel by pixel.                      *)
(***************************************************************************)
EXTENDS Integers, Sequences, FiniteSets, TLC

VARIABLES
    \* ---- process_image ----
    settings,   \* the ProcessingSettings passed to process_image
    srcW,       \* width of the caller's buffer at the call
    srcH,       \* height of the caller's buffer at the call
    heap,       \* PIL image objects; heap[1] is the caller's buffer
    orig,       \* the caller's buffer as it was at the call
    img,        \* the local variable `img`: an index into heap
    calls,      \* the Pillow calls made so far, in order
    pc,         \* position inside process_image
    \* ---- collect_images ----
    zipN,       \* number of image files in the flat archive on disk
    zipM,       \* number of other files in the flat archive on disk
    paths,      \* the argument of collect_images
    idx,        \* position of the loop over paths
    images,     \* the list `images`
    seen,       \* the set `seen`
    temp_dirs,  \* the list `temp_dirs`
    tmpfs,      \* the temporary directories created and what each holds
    dpc,        \* position inside collect_images
    \* ---- App: settings panel ----
    app_settings,     \* self.settings
    custom_settings,  \* self._custom_settings
    sliders,          \* the value each slider widget shows, by attribute
    quality_slider,   \* the value of the quality slider
    format_menu,      \* the format the format menu shows
    preset_menu,      \* the entry the preset menu last used shows
    hand_set,         \* the settings as the last slider edit left them, if any
    reached,          \* the settings last handed to process_image, if any
    uiOps,            \* number of events handled so far
    presetOps,        \* number of preset menu selections handled so far
    \* ---- App: image list, temporary directories, preview and export ----
    image_infos,      \* self.image_infos
    app_temp_dirs,    \* self.temp_dirs
    preview_timer,    \* a _kick_preview call is scheduled
    previews,         \* the arguments of the running preview threads
    displayed,        \* the preview shown: self._preview_pil, if not None
    export_cancelled, \* self.export_cancelled
    export_btn,       \* what the export button does: "export" or "cancel"
    epc,              \* position of the export thread
    total,            \* _bg_export: total
    export_settings,  \* _bg_export: settings, once assigned
    batch,            \* the image list as it was when total was taken
    ok,               \* _bg_export: ok
    fail,             \* _bg_export: fail
    used_names,       \* _bg_export: used_names
    ei,               \* _bg_export: items the loop has taken from the list
    einfo,            \* _bg_export: the ImageInfo being processed, if any
    dest,             \* names of the files in the output directory
    saved,            \* the names save_image wrote in this export
    after_q,          \* callbacks posted with self.after(0, ...)
    report,           \* arguments of _export_done for the last export, if called
    closed,           \* the window has been closed
    requests,         \* number of _add_paths, _export and
                      \* _on_format_change calls so far
    \* ---- save_image and estimate_output_size ----
    enc_img,          \* the buffer to encode
    enc_settings,     \* the settings to encode it with
    file,             \* what save_image wrote, if called
    estimate          \* what estimate_output_size encoded, if called

pipeVars == <<settings, srcW, srcH, heap, orig, img, calls, pc>>

discVars == <<zipN, zipM, paths, idx, images, seen, temp_dirs, tmpfs, dpc>>

uiVars == <<app_settings, custom_settings, sliders, quality_slider,
            format_menu, preset_menu, hand_set, reached, uiOps, presetOps>>

appVars == <<image_infos, app_temp_dirs, preview_timer, previews, displayed,
             export_cancelled, export_btn, epc, total, export_settings,
             batch, ok, fail, used_names,
             ei, einfo, dest, saved, after_q, report, closed, requests>>

encVars == <<enc_img, enc_settings, file, estimate>>

vars == <<settings, srcW, srcH, heap, orig, img, calls, pc,
          zipN, zipM, paths, idx, images, seen, temp_dirs, tmpfs, dpc,
          app_settings, custom_settings, sliders, quality_slider,
          format_menu, preset_menu, hand_set, reached, uiOps, presetOps,
          image_infos, app_temp_dirs, preview_timer, previews, displayed,
          export_cancelled, export_btn, epc, total, export_settings,
          batch, ok, fail, used_names,
          ei, einfo, dest, saved, after_q, report, closed, requests,
          enc_img, enc_settings, file, estimate>>

-----------------------------------------------------------------------------
(* Bounds of the model *)

\* side of the largest raster whose alpha channel is enumerated pixel by pixel
MaxGrid == 2
\* largest edge_trim drawn for the pixel-level inputs
MaxTrim == 2
\* longest list of paths passed to collect_images
MaxPaths == 2
\* most image files in the flat archive
MaxN == 2
\* most other files in the flat archive
MaxM == 2
\* the interpreter's limit on nested _scan_directory calls
\* (sys.getrecursionlimit(), scaled down)
RecursionLimit == 3
\* most requests of the user (paths added, exports started) in one run of
\* the App
MaxRequests == 3
\* most events (panel events and process_image calls) in one run of the
\* settings panel
MaxUiOps == 1
\* most selections in the preset menus in one run of the settings panel
MaxPresetOps == 3

-----------------------------------------------------------------------------
(* ProcessingSettings *)

\* upscale slider bounds
UpscaleMin == 1
UpscaleMax == 8
\* downscale slider bounds, in hundredths
DownscaleMin == 80
DownscaleMax == 100
\* 1.0 in hundredths: the neutral value of the multiplicative factors
One == 100

Formats == {"PNG", "JPEG", "WEBP"}

\* the dataclass defaults
DefaultSettings ==
    [upscale_factor |-> 4, blur_radius |-> 60, sharpen_radius |-> 120,
     sharpen_amount |-> 120, sharpen_threshold |-> 2, downscale_factor |-> 97,
     edge_trim |-> 0, contrast |-> 100, saturation |-> 100,
     brightness |-> 100, noise_reduction |-> 0, output_format |-> "PNG",
     jpeg_quality |-> 95]

\* settings with every pass at its no-op value
Disabled ==
    [DefaultSettings EXCEPT !.upscale_factor = 1, !.blur_radius = 0,
                            !.sharpen_amount = 0, !.downscale_factor = One]

-----------------------------------------------------------------------------
(* Double-precision arithmetic of int(width * downscale_factor) *)

\* The double nearest to k/100 (0.5 <= k/100 < 1) is m / 2^53 for an integer
\* m; MantissaErr(k) = 100*m - k*2^53, the signed representation error scaled
\* by 100 * 2^53.  It lies in -50..50 and is the residue of -k * 2^53 modulo
\* 100 nearest to zero (2^53 = 92 modulo 100).
MantissaErr(k) ==
    LET r == (100 - ((92 * k) % 100)) % 100
    IN  IF r > 50 THEN r - 100 ELSE r

RECURSIVE PowTwoBelow(_, _)
\* the largest power of two not above n, searched upwards from p
PowTwoBelow(n, p) == IF 2 * p <= n THEN PowTwoBelow(n, 2 * p) ELSE p

\* int(w * d) for the double d nearest to k/100: the product is rounded to
\* the nearest double and then truncated.  The rounded product can only fall
\* below the exact product's integer part when the exact product w*k/100 is a
\* whole number N and the representation error pulls it more than half an ulp
\* under N.
\* (variant: the product rounded to the nearest integer instead of truncated)
ScaledDimRounded(w, k) == (2 * w * k + 100) \div 200

ScaledDim(w, k) ==
    LET q == w * k
        N == q \div 100
        e == PowTwoBelow(N, 1)
        half == IF N = e THEN 50 * e ELSE 100 * e
    IN  IF q % 100 = 0 /\ N >= 1 /\ (0 - w * MantissaErr(k)) > half
        THEN N - 1
        ELSE N

Max(a, b) == IF a >= b THEN a ELSE b

-----------------------------------------------------------------------------
(* PIL images *)

\* one Pillow operation applied to a channel, with its parameters
Op(name, a, b, c) == [op |-> name, a |-> a, b |-> b, c |-> c]

\* one entry of the call log: the operation and the heap object it was
\* applied to
Call(name, on, a, b, c) == [op |-> name, on |-> on, a |-> a, b |-> b, c |-> c]

Grid(w, h) == (1..w) \X (1..h)

\* An image object.  rgb and alpha are the library operations applied to the
\* colour and alpha channels of the raster the object started from; T is the
\* set of transparent pixels of that starting alpha channel.
Image(mode, w, h, T) ==
    [mode |-> mode, w |-> w, h |-> h, rgb |-> <<>>, alpha |-> <<>>, T |-> T]

\* Image.convert('RGBA'): a new object with the same colour values; an image
\* without alpha becomes fully opaque.
ConvertRGBA(im) == [im EXCEPT !.mode = "RGBA"]

\* Image.resize((w, h), LANCZOS): a new object, every band resampled
Resize(im, w, h) ==
    [im EXCEPT !.w = w, !.h = h,
               !.rgb = Append(@, Op("resize", w, h, 0)),
               !.alpha = Append(@, Op("resize", w, h, 0))]

\* Image.filter(f) on an RGBA image: a new object, every band filtered
Filter(im, f) ==
    [im EXCEPT !.rgb = Append(@, f), !.alpha = Append(@, f)]

\* ImageEnhance.X(img).enhance(factor): a new object blended with a
\* degenerate image that carries the same alpha channel
Enhance(im, f) == [im EXCEPT !.rgb = Append(@, f)]

\* the 3x3 neighbourhood of a pixel, clipped to the raster
Window(p, w, h) ==
    {q \in ((p[1] - 1)..(p[1] + 1)) \X ((p[2] - 1)..(p[2] + 1)) :
        q[1] >= 1 /\ q[1] <= w /\ q[2] >= 1 /\ q[2] <= h}

\* (variant: the maximum of the window; a pixel stays transparent only when
\* its whole 3x3 window is transparent)
MaxFilter3(T, w, h) == {p \in T : Window(p, w, h) \subseteq T}

\* ImageFilter.MinFilter(3) on a binary alpha channel: a pixel becomes
\* transparent when any pixel of its 3x3 window is transparent
MinFilter3(T, w, h) == UNION {Window(p, w, h) : p \in T}

\* a channel taken out of an image: its starting pixels and the operations
\* applied since
GetChannelA(im) == [T |-> im.T, ops |-> im.alpha, w |-> im.w, h |-> im.h]

\* channel.filter(MinFilter(3)): computed on the pixels when the channel is
\* still the starting raster, recorded as an operation otherwise
ChannelMinFilter(ch) ==
    IF ch.ops = <<>>
    THEN [ch EXCEPT !.T = MinFilter3(ch.T, ch.w, ch.h)]
    ELSE [ch EXCEPT !.ops = Append(@, Op("MinFilter", 3, 0, 0))]

RECURSIVE ErodeTimes(_, _)
\* for _ in range(n): eroded = eroded.filter(MinFilter(3))
ErodeTimes(ch, n) ==
    IF n <= 0 THEN ch ELSE ErodeTimes(ChannelMinFilter(ch), n - 1)

\* (variant: the colour bands are reset as well)
PutAlphaAndColour(im, ch) == [im EXCEPT !.T = ch.T, !.alpha = ch.ops, !.rgb = << >>]

\* Image.putalpha(channel): replaces the alpha channel of the object in place
PutAlpha(im, ch) == [im EXCEPT !.T = ch.T, !.alpha = ch.ops]

\* the RGBA pixels of an image: its raster size and the content of its bands
Pixels(im) ==
    [w |-> im.w, h |-> im.h, rgb |-> im.rgb, alpha |-> im.alpha, T |-> im.T]

-----------------------------------------------------------------------------
(* process_image: gates of the passes *)

UpscaleGate(s)    == s.upscale_factor > 1
\* (variant: the blur pass also taken at radius 0)
BlurGateInclusive(s) == s.blur_radius >= 0
BlurGate(s)       == s.blur_radius > 0
SharpenGate(s)    == s.sharpen_amount > 0
DownscaleGate(s)  == s.downscale_factor < One
\* (variant: the contrast pass taken only above 1.0)
ContrastGateAbove(s) == s.contrast > One
ContrastGate(s)   == s.contrast # One
SaturationGate(s) == s.saturation # One
BrightnessGate(s) == s.brightness # One
NoiseGate(s)      == s.noise_reduction > 0
ErodeGate(s, im)  == s.edge_trim > 0 /\ im.mode = "RGBA"

\* (variant: the blur pass placed before the upscale pass)
PassOrderBlurFirst ==
    <<"convert", "blur", "upscale", "sharpen", "downscale", "contrast",
      "saturation", "brightness", "noise", "erode", "done">>

\* the passes in program order
PassOrder ==
    <<"convert", "upscale", "blur", "sharpen", "downscale", "contrast",
      "saturation", "brightness", "noise", "erode", "done">>

PassIndex(p) == CHOOSE i \in 1..Len(PassOrder) : PassOrder[i] = p

\* the statement that follows pass p
After(p) == PassOrder[PassIndex(p) + 1]

\* `img = <new object>`: allocate the object and rebind the local variable
Rebind(im, call) ==
    /\ heap' = Append(heap, im)
    /\ img' = Len(heap) + 1
    /\ calls' = Append(calls, call)

Skip == UNCHANGED <<heap, img, calls>>

Frame ==
    /\ UNCHANGED <<settings, srcW, srcH, orig>>
    /\ UNCHANGED discVars
    /\ UNCHANGED uiVars
    /\ UNCHANGED appVars
    /\ UNCHANGED encVars

\* if img.mode != 'RGBA': img = img.convert('RGBA')
Convert ==
    /\ pc = "convert"
    /\ IF heap[img].mode # "RGBA"
       THEN Rebind(ConvertRGBA(heap[img]), Call("convert", img, 0, 0, 0))
       ELSE Skip
    /\ pc' = After("convert")
    /\ Frame

\* Pass 1: upscale
Upscale ==
    /\ pc = "upscale"
    /\ IF UpscaleGate(settings)
       THEN LET new_w == heap[img].w * settings.upscale_factor
                new_h == heap[img].h * settings.upscale_factor
            IN  Rebind(Resize(heap[img], new_w, new_h),
                       Call("resize", img, new_w, new_h, 1))
       ELSE Skip
    /\ pc' = After("upscale")
    /\ Frame

\* Pass 2: Gaussian blur
Blur ==
    /\ pc = "blur"
    /\ IF BlurGate(settings)
       THEN Rebind(Filter(heap[img],
                          Op("GaussianBlur", settings.blur_radius, 0, 0)),
                   Call("GaussianBlur", img, settings.blur_radius, 0, 2))
       ELSE Skip
    /\ pc' = After("blur")
    /\ Frame

\* Pass 3: unsharp mask
Sharpen ==
    /\ pc = "sharpen"
    /\ IF SharpenGate(settings)
       THEN Rebind(Filter(heap[img],
                          Op("UnsharpMask", settings.sharpen_radius,
                             settings.sharpen_amount,
                             settings.sharpen_threshold)),
                   Call("UnsharpMask", img, settings.sharpen_radius,
                        settings.sharpen_amount, 3))
       ELSE Skip
    /\ pc' = After("sharpen")
    /\ Frame

\* Pass 4: downscale
Downscale ==
    /\ pc = "downscale"
    /\ IF DownscaleGate(settings)
       THEN LET new_w == Max(1, ScaledDim(heap[img].w,
                                          settings.downscale_factor))
                new_h == Max(1, ScaledDim(heap[img].h,
                                          settings.downscale_factor))
            IN  Rebind(Resize(heap[img], new_w, new_h),
                       Call("resize", img, new_w, new_h, 4))
       ELSE Skip
    /\ pc' = After("downscale")
    /\ Frame

\* Pass 5: contrast
Contrast ==
    /\ pc = "contrast"
    /\ IF ContrastGate(settings)
       THEN Rebind(Enhance(heap[img], Op("Contrast", settings.contrast, 0, 0)),
                   Call("Contrast", img, settings.contrast, 0, 5))
       ELSE Skip
    /\ pc' = After("contrast")
    /\ Frame

\* Pass 6: saturation
Saturation ==
    /\ pc = "saturation"
    /\ IF SaturationGate(settings)
       THEN Rebind(Enhance(heap[img], Op("Color", settings.saturation, 0, 0)),
                   Call("Color", img, settings.saturation, 0, 6))
       ELSE Skip
    /\ pc' = After("saturation")
    /\ Frame

\* Pass 7: brightness
Brightness ==
    /\ pc = "brightness"
    /\ IF BrightnessGate(settings)
       THEN Rebind(Enhance(heap[img],
                           Op("Brightness", settings.brightness, 0, 0)),
                   Call("Brightness", img, settings.brightness, 0, 7))
       ELSE Skip
    /\ pc' = After("brightness")
    /\ Frame

\* Pass 8: median filter, kernel 2 * noise_reduction + 1
Noise ==
    /\ pc = "noise"
    /\ IF NoiseGate(settings)
       THEN LET k == settings.noise_reduction * 2 + 1
            IN  Rebind(Filter(heap[img], Op("MedianFilter", k, 0, 0)),
                       Call("MedianFilter", img, k, 0, 8))
       ELSE Skip
    /\ pc' = After("noise")
    /\ Frame

\* the object whose alpha channel pass 9 reads
ErodeSource(i) == i

\* Pass 9: erode the alpha channel and write it back into img, in place
Erode ==
    /\ pc = "erode"
    /\ IF ErodeGate(settings, heap[img])
       THEN LET alpha  == GetChannelA(heap[ErodeSource(img)])
                eroded == ErodeTimes(alpha, settings.edge_trim)
            IN  /\ heap' = [heap EXCEPT ![img] = PutAlpha(@, eroded)]
                /\ calls' = calls \o
                       [i \in 1..settings.edge_trim |->
                           Call("MinFilter", ErodeSource(img), 3, i, 9)]
                /\ img' = img
       ELSE Skip
    /\ pc' = After("erode")
    /\ Frame

\* the image process_image returns
Result == heap[img]

-----------------------------------------------------------------------------
(* save_image and estimate_output_size *)

\* the band layouts with an alpha band
AlphaModes == {"RGBA", "LA"}

\* str.upper() on the format names met here
Upper(fmt) ==
    CASE fmt = "jpeg" -> "JPEG"
      [] fmt = "jpg" -> "JPG"
      [] fmt = "webp" -> "WEBP"
      [] fmt = "png" -> "PNG"
      [] OTHER -> fmt

\* bg = Image.new('RGB', img.size, (255, 255, 255));
\* bg.paste(img, mask=img.split()[3]): the colours over white, no alpha band
PasteOnWhite(im) ==
    [im EXCEPT !.mode = "RGB",
               !.rgb = Append(@, Op("over white", 255, 255, 255)),
               !.alpha = << >>,
               !.T = {}]

\* Image.convert('RGB'): the colour values kept, an alpha band dropped
ConvertRGB(im) == [im EXCEPT !.mode = "RGB", !.alpha = << >>, !.T = {}]

\* Image.save(target, format=..., ...): what is encoded and how
Encoded(format, im, quality, option) ==
    [format |-> format, image |-> im, quality |-> quality, option |-> option]

\* save_image(img, path, settings)
save_image(im, s) ==
    LET fmt == Upper(s.output_format)
    IN  IF fmt \in {"JPEG", "JPG"}
        THEN Encoded("JPEG",
                     IF im.mode = "RGBA" THEN PasteOnWhite(im)
                     ELSE IF im.mode # "RGB" THEN ConvertRGB(im)
                     ELSE im,
                     s.jpeg_quality, "optimize")
        ELSE IF fmt = "WEBP"
        THEN Encoded("WEBP", im, s.jpeg_quality, "method 4")
        ELSE Encoded("PNG", im, 0, "compress_level 1")

\* estimate_output_size(img, settings): the encoding whose length is returned
estimate_output_size(im, s) ==
    LET fmt == Upper(s.output_format)
    IN  IF fmt \in {"JPEG", "JPG"}
        THEN Encoded("JPEG",
                     IF im.mode = "RGBA" THEN PasteOnWhite(im)
                     ELSE IF im.mode # "RGB" THEN ConvertRGB(im)
                     ELSE im,
                     s.jpeg_quality, "")
        ELSE IF fmt = "WEBP"
        THEN Encoded("WEBP", im, s.jpeg_quality, "")
        ELSE Encoded("PNG", im, 0, "compress_level 6")

EncFrame ==
    /\ UNCHANGED <<enc_img, enc_settings>>
    /\ UNCHANGED pipeVars
    /\ UNCHANGED discVars
    /\ UNCHANGED uiVars
    /\ UNCHANGED appVars

\* a call of save_image
SaveImage ==
    /\ file = << >>
    /\ file' = <<save_image(enc_img, enc_settings)>>
    /\ UNCHANGED estimate
    /\ EncFrame

\* a call of estimate_output_size
EstimateOutputSize ==
    /\ estimate = << >>
    /\ estimate' = <<estimate_output_size(enc_img, enc_settings)>>
    /\ UNCHANGED file
    /\ EncFrame

-----------------------------------------------------------------------------
(* get_output_dimensions *)

\* (variant: the predictor multiplying exactly, without the double product)
get_output_dimensions_exact(width, height, s) ==
    LET w == IF s.upscale_factor > 1 THEN width * s.upscale_factor ELSE width
        h == IF s.upscale_factor > 1 THEN height * s.upscale_factor ELSE height
    IN  IF s.downscale_factor < One
        THEN <<Max(1, (w * s.downscale_factor) \div 100),
               Max(1, (h * s.downscale_factor) \div 100)>>
        ELSE <<w, h>>

get_output_dimensions(width, height, s) ==
    LET w == IF s.upscale_factor > 1 THEN width * s.upscale_factor ELSE width
        h == IF s.upscale_factor > 1 THEN height * s.upscale_factor ELSE height
    IN  IF s.downscale_factor < One
        THEN <<Max(1, ScaledDim(w, s.downscale_factor)),
               Max(1, ScaledDim(h, s.downscale_factor))>>
        ELSE <<w, h>>

-----------------------------------------------------------------------------
(* File system seen by collect_images *)

\* a path component: a stem, a number and an extension ("img", 2, ".JPG")
Name(s, i, e) == [s |-> s, i |-> i, e |-> e]

\* a path string: absolute or relative, and its components
Path(abs, comps) == [abs |-> abs, comps |-> comps]

\* the process's working directory
Cwd == <<Name("home", 0, "")>>

\* the file a path string names
Resolve(p) == IF p.abs THEN p.comps ELSE Cwd \o p.comps

\* os.path.join(root, f)
Join(root, f) == [root EXCEPT !.comps = Append(@, f)]

IsPrefix(a, b) == Len(a) <= Len(b) /\ SubSeq(b, 1, Len(a)) = a

SUPPORTED_EXTENSIONS ==
    {".png", ".jpg", ".jpeg", ".bmp", ".tiff", ".tif", ".webp", ".gif"}

\* str.lower() on the extensions that occur
Lower(e) ==
    CASE e = ".PNG"  -> ".png"
      [] e = ".JPG"  -> ".jpg"
      [] e = ".TIFF" -> ".tiff"
      [] e = ".ZIP"  -> ".zip"
      [] OTHER       -> e

\* os.path.splitext(f)[1]
SplitExt(f) == f.e

\* a regular file: its location and the archive it holds (NotZip: the file is
\* not a ZIP container)
File(comps, zid) == [comps |-> comps, zid |-> zid]

NotZip == "none"
FlatZip == "flat"
OuterZip == "outer"
InnerZip == "inner"
DeepZip == "deep"
\* a valid container whose extraction raises RuntimeError (its members are
\* encrypted), one whose extraction raises BadZipFile (a damaged member), an
\* office document (a ZIP container not named *.zip) and an archive that
\* holds a copy of itself
LockedZip == "locked"
DamagedZip == "damaged"
DocxZip == "docx"
SelfZip == "self"

\* what ZipFile(path).extractall(tmp) raises
ExtractError(zid) ==
    CASE zid = LockedZip  -> "RuntimeError"
      [] zid = DamagedZip -> "BadZipFile"
      [] OTHER            -> "none"

ImgExts == <<".png", ".JPG", ".jpeg", ".bmp", ".TIFF", ".tif", ".webp", ".gif">>
OtherExts == <<".txt", "", ".pdf">>

\* the members of each archive, in the order a walk of the extracted tree
\* lists them.  The flat archive holds n image files and m other files.
ArchiveMembers(zid, n, m) ==
    CASE zid = FlatZip ->
            [i \in 1..n |-> File(<<Name("img", i, ImgExts[((i - 1) % 8) + 1])>>,
                                 NotZip)]
            \o [j \in 1..m |-> File(<<Name("doc", j, OtherExts[((j - 1) % 3) + 1])>>,
                                    NotZip)]
      [] zid = OuterZip ->
            << File(<<Name("p", 0, ".png")>>, NotZip),
               File(<<Name("r", 0, ".txt")>>, NotZip),
               File(<<Name("broken", 0, ".zip")>>, NotZip),
               File(<<Name("d", 0, ""), Name("inner", 0, ".zip")>>, InnerZip) >>
      [] zid = InnerZip ->
            << File(<<Name("x", 0, ".PNG")>>, NotZip),
               File(<<Name("deep", 0, ".ZIP")>>, DeepZip) >>
      [] zid = DeepZip ->
            << File(<<Name("y", 0, ".gif")>>, NotZip) >>
      [] zid = DocxZip ->
            << File(<<Name("word", 0, ""), Name("media", 0, ""),
                      Name("image", 1, ".png")>>, NotZip) >>
      [] zid = LockedZip ->
            << File(<<Name("secret", 0, ".png")>>, NotZip) >>
      [] zid = DamagedZip ->
            << File(<<Name("half", 0, ".png")>>, NotZip) >>
      [] zid = SelfZip ->
            << File(<<Name("q", 0, ".png")>>, NotZip),
               File(<<Name("self", 0, ".zip")>>, SelfZip) >>
      [] OTHER -> << >>

Home == Cwd
Pics == Home \o <<Name("pics", 0, "")>>
Mixed == Home \o <<Name("mixed", 0, "")>>

\* the files on disk, in walk order
DiskFiles ==
    << File(Home \o <<Name("flat", 0, ".zip")>>, FlatZip),
       File(Home \o <<Name("outer", 0, ".zip")>>, OuterZip),
       File(Pics \o <<Name("a", 0, ".png")>>, NotZip),
       File(Pics \o <<Name("b", 0, ".JPG")>>, NotZip),
       File(Pics \o <<Name("notes", 0, ".txt")>>, NotZip),
       File(Pics \o <<Name("in", 0, ".zip")>>, InnerZip),
       File(Pics \o <<Name("sub", 0, ""), Name("c", 0, ".gif")>>, NotZip),
       File(Home \o <<Name("locked", 0, ".zip")>>, LockedZip),
       File(Home \o <<Name("bad", 0, ".zip")>>, NotZip),
       File(Home \o <<Name("report", 0, ".docx")>>, DocxZip),
       File(Home \o <<Name("self", 0, ".zip")>>, SelfZip),
       File(Mixed \o <<Name("damaged", 0, ".zip")>>, DamagedZip),
       File(Mixed \o <<Name("locked", 0, ".zip")>>, LockedZip),
       File(Mixed \o <<Name("e", 0, ".png")>>, NotZip) >>

\* the n-th directory tempfile.mkdtemp(prefix="imgupscaler_") creates
TmpDir(n) == Path(TRUE, <<Name("tmp", 0, ""), Name("imgupscaler_", n, "")>>)

\* the files extracted into temporary directory n (none when the extraction
\* failed: the archives that fail do so on their first member)
Extracted(tf, n, zn, zm) ==
    LET ms == IF ExtractError(tf[n].zid) = "none"
              THEN ArchiveMembers(tf[n].zid, zn, zm)
              ELSE << >>
    IN  [i \in 1..Len(ms) |-> File(TmpDir(n).comps \o ms[i].comps, ms[i].zid)]

RECURSIVE TempFiles(_, _, _, _)
TempFiles(tf, n, zn, zm) ==
    IF n > Len(tf) THEN << >>
    ELSE Extracted(tf, n, zn, zm) \o TempFiles(tf, n + 1, zn, zm)

\* every regular file that exists
AllFiles(tf, zn, zm) == DiskFiles \o TempFiles(tf, 1, zn, zm)

Range(seq) == {seq[i] : i \in 1..Len(seq)}

FileAt(r, tf, zn, zm) ==
    {f \in Range(AllFiles(tf, zn, zm)) : f.comps = r}

\* os.path.isfile
IsFile(p, tf, zn, zm) == FileAt(Resolve(p), tf, zn, zm) # {}

\* os.path.isdir
IsDir(p, tf, zn, zm) ==
    \E f \in Range(AllFiles(tf, zn, zm)) :
        IsPrefix(Resolve(p), f.comps) /\ Len(Resolve(p)) < Len(f.comps)

\* os.path.exists
Exists(p, tf, zn, zm) == IsFile(p, tf, zn, zm) \/ IsDir(p, tf, zn, zm)

\* the archive a file holds
ZidOf(p, tf, zn, zm) ==
    (CHOOSE f \in FileAt(Resolve(p), tf, zn, zm) : TRUE).zid

\* zipfile.is_zipfile
IsZipFile(p, tf, zn, zm) ==
    IsFile(p, tf, zn, zm) /\ ZidOf(p, tf, zn, zm) # NotZip

\* os.walk(directory) flattened to (os.path.join(root, f), f) for every file,
\* the paths spelled from the directory string as given
Walk(directory, tf, zn, zm) ==
    LET r == Resolve(directory)
        Under(f) == IsPrefix(r, f.comps) /\ Len(r) < Len(f.comps)
        fs == SelectSeq(AllFiles(tf, zn, zm), Under)
    IN  [i \in 1..Len(fs) |->
            [fp |-> Path(directory.abs,
                         directory.comps
                           \o SubSeq(fs[i].comps, Len(r) + 1, Len(fs[i].comps))),
             f |-> fs[i].comps[Len(fs[i].comps)],
             zid |-> fs[i].zid]]

-----------------------------------------------------------------------------
(* collect_images and _scan_directory *)

\* an element of `paths`: a path string with the whitespace and quote
\* characters typed around it
Raw(lead, path, trail) == [lead |-> lead, path |-> path, trail |-> trail]

Whitespace == {" "}

RECURSIVE LStrip(_, _)
LStrip(cs, chars) ==
    IF cs # << >> /\ Head(cs) \in chars THEN LStrip(Tail(cs), chars) ELSE cs

RECURSIVE RStrip(_, _)
RStrip(cs, chars) ==
    IF cs # << >> /\ cs[Len(cs)] \in chars
    THEN RStrip(SubSeq(cs, 1, Len(cs) - 1), chars)
    ELSE cs

\* str.strip(chars) on a path wrapped in lead and trail
StripChars(raw, chars) ==
    [raw EXCEPT !.lead = LStrip(@, chars), !.trail = RStrip(@, chars)]

\* raw_path.strip().strip('"').strip("'")
Strip(raw) == StripChars(StripChars(StripChars(raw, Whitespace), {"\""}), {"'"})

\* the state of one collect_images call: its lists, the directories made so
\* far, the exception being raised ("none": none) and the number of
\* _scan_directory calls on the stack
State(im, sn, td, tf) ==
    [images |-> im, seen |-> sn, temp_dirs |-> td, tmpfs |-> tf,
     exc |-> "none", depth |-> 0]

EmptyState == State(<< >>, {}, << >>, << >>)

\* images.append(fp); seen.add(fp)
AddImage(st, fp) ==
    [st EXCEPT !.images = Append(@, fp), !.seen = @ \cup {fp}]

\* tmp = tempfile.mkdtemp(...); temp_dirs.append(tmp); zf.extractall(tmp)
ExtractToTemp(st, fp, zid) ==
    [st EXCEPT !.tmpfs = Append(@, [zid |-> zid, from |-> fp]),
               !.temp_dirs = Append(@, TmpDir(Len(st.tmpfs) + 1)),
               !.exc = ExtractError(zid)]

\* (variant: no except clause)
Uncaught(st, types) == st

\* `except Exception: pass` and `except zipfile.BadZipFile: continue`
Caught(st, types) ==
    IF st.exc \in types THEN [st EXCEPT !.exc = "none"] ELSE st

\* the classes `except Exception` catches
Exceptions == {"RuntimeError", "BadZipFile", "RecursionError"}

\* (variant: the extension compared without lower-casing)
IsSupportedCaseSensitive(f) == SplitExt(f) \in SUPPORTED_EXTENSIONS

\* ext in SUPPORTED_EXTENSIONS
IsSupported(f) == Lower(SplitExt(f)) \in SUPPORTED_EXTENSIONS

RECURSIVE ScanFiles(_, _, _, _, _)
RECURSIVE scan_directory(_, _, _, _)

\* (variant: the archive extracted but its directory not scanned)
ScanNestedZipShallow(st, fp, zid, zn, zm) ==
    Caught(ExtractToTemp(st, fp, zid), Exceptions)

\* the archive branch of _scan_directory: extract and scan the new directory,
\* inside try ... except Exception: pass
ScanNestedZip(st, fp, zid, zn, zm) ==
    LET st1 == ExtractToTemp(st, fp, zid)
    IN  Caught(IF st1.exc # "none" THEN st1
               ELSE scan_directory(TmpDir(Len(st.tmpfs) + 1), st1, zn, zm),
               Exceptions)

\* the body of `for f in files` for the walked files from position i on
\* (collect_images always passes temp_dirs, so `temp_dirs is not None` holds)
ScanFiles(files, i, st, zn, zm) ==
    IF i > Len(files) THEN st
    ELSE LET fp == files[i].fp
             ext == Lower(SplitExt(files[i].f))
         IN  IF IsSupported(files[i].f) /\ fp \notin st.seen
             THEN ScanFiles(files, i + 1, AddImage(st, fp), zn, zm)
             ELSE IF ext = ".zip" /\ fp \notin st.seen
             THEN LET st1 == [st EXCEPT !.seen = @ \cup {fp}]
                  IN  IF files[i].zid # NotZip
                      THEN ScanFiles(files, i + 1,
                               ScanNestedZip(st1, fp, files[i].zid, zn, zm),
                               zn, zm)
                      ELSE ScanFiles(files, i + 1, st1, zn, zm)
             ELSE ScanFiles(files, i + 1, st, zn, zm)

\* _scan_directory(directory, images, seen, temp_dirs): the call raises
\* RecursionError when the stack is full
scan_directory(directory, st, zn, zm) ==
    IF st.depth >= RecursionLimit
    THEN [st EXCEPT !.exc = "RecursionError"]
    ELSE [ScanFiles(Walk(directory, st.tmpfs, zn, zm), 1,
                    [st EXCEPT !.depth = @ + 1], zn, zm)
            EXCEPT !.depth = st.depth]

\* a stripped path string names something only when nothing is left around it
Clean(sp) == sp.lead = << >> /\ sp.trail = << >>

PathExists(sp, st, zn, zm) == Clean(sp) /\ Exists(sp.path, st.tmpfs, zn, zm)

\* branch `if os.path.isdir(path)`
DirBranch(st, path, zn, zm) == scan_directory(path, st, zn, zm)

\* branch `elif zipfile.is_zipfile(path)`: only BadZipFile is caught
ZipBranch(st, path, zn, zm) ==
    LET st1 == ExtractToTemp(st, path, ZidOf(path, st.tmpfs, zn, zm))
    IN  Caught(IF st1.exc # "none" THEN st1
               ELSE scan_directory(TmpDir(Len(st.tmpfs) + 1), st1, zn, zm),
               {"BadZipFile"})

\* branch `elif os.path.isfile(path)`
FileBranch(st, path) ==
    IF IsSupported(path.comps[Len(path.comps)]) /\ path \notin st.seen
    THEN AddImage(st, path)
    ELSE st

\* (variant: a path that does not exist raises)
CollectStepMissingRaises(st, raw, zn, zm) ==
    LET sp == Strip(raw)
        path == sp.path
    IN  IF ~PathExists(sp, st, zn, zm)
        THEN [st EXCEPT !.exc = "FileNotFoundError"]
        ELSE IF IsDir(path, st.tmpfs, zn, zm) THEN DirBranch(st, path, zn, zm)
        ELSE IF IsZipFile(path, st.tmpfs, zn, zm)
             THEN ZipBranch(st, path, zn, zm)
        ELSE IF IsFile(path, st.tmpfs, zn, zm) THEN FileBranch(st, path)
        ELSE st

\* one iteration of `for raw_path in paths`
CollectStep(st, raw, zn, zm) ==
    LET sp == Strip(raw)
        path == sp.path
    IN  IF ~PathExists(sp, st, zn, zm) THEN st
        ELSE IF IsDir(path, st.tmpfs, zn, zm) THEN DirBranch(st, path, zn, zm)
        ELSE IF IsZipFile(path, st.tmpfs, zn, zm)
             THEN ZipBranch(st, path, zn, zm)
        ELSE IF IsFile(path, st.tmpfs, zn, zm) THEN FileBranch(st, path)
        ELSE st

RECURSIVE CollectFrom(_, _, _, _, _)
CollectFrom(ps, i, st, zn, zm) ==
    IF i > Len(ps) \/ st.exc # "none" THEN st
    ELSE CollectFrom(ps, i + 1, CollectStep(st, ps[i], zn, zm), zn, zm)

\* collect_images(paths) run to its return
collect_images(ps, zn, zm) == CollectFrom(ps, 1, EmptyState, zn, zm)

Current == State(images, seen, temp_dirs, tmpfs)

\* the iteration ends in state st: the loop goes on, or the exception
\* leaves collect_images
Becomes(st) ==
    /\ images' = st.images
    /\ seen' = st.seen
    /\ temp_dirs' = st.temp_dirs
    /\ tmpfs' = st.tmpfs
    /\ dpc' = IF st.exc = "none" THEN dpc ELSE "raised"

DiscFrame ==
    /\ UNCHANGED <<zipN, zipM, paths>>
    /\ UNCHANGED pipeVars
    /\ UNCHANGED uiVars
    /\ UNCHANGED appVars
    /\ UNCHANGED encVars

InLoop == dpc = "loop" /\ idx <= Len(paths)

\* if not os.path.exists(path): continue
SkipMissing ==
    /\ InLoop
    /\ ~PathExists(Strip(paths[idx]), Current, zipN, zipM)
    /\ Becomes(CollectStep(Current, paths[idx], zipN, zipM))
    /\ idx' = idx + 1
    /\ DiscFrame

\* a directory: _scan_directory(path, images, seen, temp_dirs)
ScanDir ==
    /\ InLoop
    /\ PathExists(Strip(paths[idx]), Current, zipN, zipM)
    /\ IsDir(Strip(paths[idx]).path, tmpfs, zipN, zipM)
    /\ Becomes(CollectStep(Current, paths[idx], zipN, zipM))
    /\ idx' = idx + 1
    /\ DiscFrame

\* a ZIP container: extract into a new temporary directory and scan it
ExtractZip ==
    /\ InLoop
    /\ PathExists(Strip(paths[idx]), Current, zipN, zipM)
    /\ ~IsDir(Strip(paths[idx]).path, tmpfs, zipN, zipM)
    /\ IsZipFile(Strip(paths[idx]).path, tmpfs, zipN, zipM)
    /\ Becomes(CollectStep(Current, paths[idx], zipN, zipM))
    /\ idx' = idx + 1
    /\ DiscFrame

\* any other file: added when its extension is supported and it is not seen
AddFile ==
    /\ InLoop
    /\ PathExists(Strip(paths[idx]), Current, zipN, zipM)
    /\ ~IsDir(Strip(paths[idx]).path, tmpfs, zipN, zipM)
    /\ ~IsZipFile(Strip(paths[idx]).path, tmpfs, zipN, zipM)
    /\ Becomes(CollectStep(Current, paths[idx], zipN, zipM))
    /\ idx' = idx + 1
    /\ DiscFrame

\* return images, temp_dirs
CollectReturn ==
    /\ dpc = "loop"
    /\ idx > Len(paths)
    /\ dpc' = "returned"
    /\ UNCHANGED <<idx, images, seen, temp_dirs, tmpfs>>
    /\ DiscFrame

-----------------------------------------------------------------------------
(* App: the settings panel (src/main.py) *)

\* the slider rows of the Upscale tab: bounds and step in the unit the
\* attribute is held in (integers as they are, fractions in hundredths)
upscale_configs ==
    [upscale_factor    |-> [lo |-> 1,  hi |-> 8,   step |-> 1,  vtype |-> "int"],
     blur_radius       |-> [lo |-> 0,  hi |-> 300, step |-> 5,  vtype |-> "float"],
     sharpen_radius    |-> [lo |-> 0,  hi |-> 500, step |-> 10, vtype |-> "float"],
     sharpen_amount    |-> [lo |-> 0,  hi |-> 300, step |-> 5,  vtype |-> "int"],
     sharpen_threshold |-> [lo |-> 0,  hi |-> 10,  step |-> 1,  vtype |-> "int"],
     downscale_factor  |-> [lo |-> 80, hi |-> 100, step |-> 1,  vtype |-> "float"],
     contrast          |-> [lo |-> 50, hi |-> 200, step |-> 5,  vtype |-> "float"],
     saturation        |-> [lo |-> 0,  hi |-> 200, step |-> 5,  vtype |-> "float"],
     brightness        |-> [lo |-> 50, hi |-> 200, step |-> 5,  vtype |-> "float"],
     noise_reduction   |-> [lo |-> 0,  hi |-> 5,   step |-> 1,  vtype |-> "int"],
     edge_trim         |-> [lo |-> 0,  hi |-> 50,  step |-> 1,  vtype |-> "int"]]

SliderAttrs == DOMAIN upscale_configs

\* (variant: the copy loses the output format)
CopyLosingFormat(s) ==
    [s EXCEPT !.output_format = DefaultSettings.output_format]

\* ProcessingSettings.copy(): a new object built from the thirteen fields
Copy(s) ==
    [upscale_factor |-> s.upscale_factor, blur_radius |-> s.blur_radius,
     sharpen_radius |-> s.sharpen_radius, sharpen_amount |-> s.sharpen_amount,
     sharpen_threshold |-> s.sharpen_threshold,
     downscale_factor |-> s.downscale_factor, edge_trim |-> s.edge_trim,
     contrast |-> s.contrast, saturation |-> s.saturation,
     brightness |-> s.brightness, noise_reduction |-> s.noise_reduction,
     output_format |-> s.output_format, jpeg_quality |-> s.jpeg_quality]

\* ProcessingSettings(**kw): the dataclass stores each argument as given and
\* the default for every other field
ProcessingSettings(kw) ==
    [f \in DOMAIN DefaultSettings |->
        IF f \in DOMAIN kw THEN kw[f] ELSE DefaultSettings[f]]

\* the Upscale-tab presets
PRESETS ==
    [Low    |-> ProcessingSettings(
                  [upscale_factor |-> 2, blur_radius |-> 30,
                   sharpen_radius |-> 80, sharpen_amount |-> 60,
                   sharpen_threshold |-> 3, downscale_factor |-> 100,
                   edge_trim |-> 0, contrast |-> 100, saturation |-> 100,
                   brightness |-> 100, noise_reduction |-> 0]),
     Medium |-> ProcessingSettings(
                  [upscale_factor |-> 4, blur_radius |-> 60,
                   sharpen_radius |-> 120, sharpen_amount |-> 120,
                   sharpen_threshold |-> 2, downscale_factor |-> 97,
                   edge_trim |-> 0, contrast |-> 105, saturation |-> 105,
                   brightness |-> 100, noise_reduction |-> 0]),
     High   |-> ProcessingSettings(
                  [upscale_factor |-> 4, blur_radius |-> 40,
                   sharpen_radius |-> 150, sharpen_amount |-> 180,
                   sharpen_threshold |-> 1, downscale_factor |-> 98,
                   edge_trim |-> 0, contrast |-> 110, saturation |-> 110,
                   brightness |-> 100, noise_reduction |-> 1]),
     Ultra  |-> ProcessingSettings(
                  [upscale_factor |-> 8, blur_radius |-> 50,
                   sharpen_radius |-> 200, sharpen_amount |-> 220,
                   sharpen_threshold |-> 1, downscale_factor |-> 97,
                   edge_trim |-> 0, contrast |-> 115, saturation |-> 115,
                   brightness |-> 100, noise_reduction |-> 1])]

\* the Downscale-tab presets, as far as the thirteen fields go (their mode
\* and downscale_* arguments name no field process_image reads)
DOWNSCALE_PRESETS ==
    [Light   |-> ProcessingSettings(
                   [contrast |-> 100, saturation |-> 100, brightness |-> 100,
                    noise_reduction |-> 0, edge_trim |-> 0]),
     Half    |-> ProcessingSettings(
                   [contrast |-> 102, saturation |-> 102, brightness |-> 100,
                    noise_reduction |-> 0, edge_trim |-> 0]),
     Quarter |-> ProcessingSettings(
                   [contrast |-> 105, saturation |-> 105, brightness |-> 100,
                    noise_reduction |-> 1, edge_trim |-> 0]),
     Tiny    |-> ProcessingSettings(
                   [contrast |-> 110, saturation |-> 110, brightness |-> 100,
                    noise_reduction |-> 1, edge_trim |-> 0])]

Min(a, b) == IF a <= b THEN a ELSE b

\* round(n / d) for n >= 0: to the nearest integer, a tie to the even one
RoundHalfEven(n, d) ==
    LET q == n \div d
        r == n % d
    IN  IF 2 * r < d THEN q
        ELSE IF 2 * r > d THEN q + 1
        ELSE IF q % 2 = 0 THEN q ELSE q + 1

\* the value _on_slider_change stores for a widget position v, given in
\* hundredths of the attribute's unit: int(round(value)), or
\* round(round(value / step) * step, 4)
SliderValue(cfg, v) ==
    IF cfg.vtype = "int"
    THEN RoundHalfEven(v, 100)
    ELSE RoundHalfEven(v, 100 * cfg.step) * cfg.step

\* new_val = max(lo, min(hi, current + delta)) in _step_slider
StepValue(cfg, current, delta) == Max(cfg.lo, Min(cfg.hi, current + delta))

UiFrame ==
    /\ UNCHANGED pipeVars
    /\ UNCHANGED discVars
    /\ UNCHANGED appVars
    /\ UNCHANGED encVars

UiReady == uiOps < MaxUiOps

PresetReady == presetOps < MaxPresetOps

\* the positions a slider is dragged to: its ends and two positions between
\* steps
SliderPositions(cfg) ==
    {100 * cfg.lo, 100 * cfg.hi, 100 * cfg.lo + 150 * cfg.step,
     100 * cfg.hi - 50 * cfg.step}

\* _on_slider_change(value, attr, ...)
OnSliderChange ==
    /\ UiReady
    /\ \E attr \in SliderAttrs :
         \E v \in SliderPositions(upscale_configs[attr]) :
            LET value == SliderValue(upscale_configs[attr], v)
            IN  /\ app_settings' = [app_settings EXCEPT ![attr] = value]
                /\ sliders' = [sliders EXCEPT ![attr] = value]
                /\ custom_settings' = Copy(app_settings')
    /\ hand_set' = <<app_settings'>>
    /\ preset_menu' = "Custom"
    /\ uiOps' = uiOps + 1
    /\ UNCHANGED <<presetOps, quality_slider, format_menu, reached>>
    /\ UiFrame

\* _step_slider(attr, -step, lo, hi) and _step_slider(attr, step, lo, hi)
StepSlider ==
    /\ UiReady
    /\ \E attr \in SliderAttrs :
         \E sign \in {-1, 1} :
            LET cfg == upscale_configs[attr]
                new_val == StepValue(cfg, sliders[attr], sign * cfg.step)
            IN  /\ sliders' = [sliders EXCEPT ![attr] = new_val]
                /\ app_settings' = [app_settings EXCEPT ![attr] = new_val]
                /\ custom_settings' = Copy(app_settings')
    /\ hand_set' = <<app_settings'>>
    /\ preset_menu' = "Custom"
    /\ uiOps' = uiOps + 1
    /\ UNCHANGED <<presetOps, quality_slider, format_menu, reached>>
    /\ UiFrame

\* _apply_settings_to_ui(s)
ApplySettingsToUi(s) == sliders' = [attr \in SliderAttrs |-> s[attr]]

\* _on_preset_change(value) and _on_dn_preset_change(value) for a preset
OnPresetChange ==
    /\ PresetReady
    /\ \E value \in DOMAIN PRESETS \cup DOMAIN DOWNSCALE_PRESETS :
          LET preset == IF value \in DOMAIN PRESETS THEN PRESETS[value]
                        ELSE DOWNSCALE_PRESETS[value]
          IN  /\ preset_menu' = value
              /\ custom_settings' = Copy(app_settings)
              /\ app_settings' = Copy(preset)
              /\ ApplySettingsToUi(Copy(preset))
    /\ presetOps' = presetOps + 1
    /\ UNCHANGED <<quality_slider, format_menu, hand_set, reached, uiOps>>
    /\ UiFrame

\* _on_preset_change("Custom") and _on_dn_preset_change("Custom")
OnPresetCustom ==
    /\ PresetReady
    /\ app_settings' = Copy(custom_settings)
    /\ ApplySettingsToUi(Copy(custom_settings))
    /\ preset_menu' = "Custom"
    /\ presetOps' = presetOps + 1
    /\ UNCHANGED <<custom_settings, quality_slider, format_menu, hand_set,
                   reached, uiOps>>
    /\ UiFrame

\* _reset_settings()
ResetSettings ==
    /\ UiReady
    /\ app_settings' = [ProcessingSettings([mode |-> "upscale"])
                           EXCEPT !.output_format = "PNG", !.jpeg_quality = 95]
    /\ ApplySettingsToUi(ProcessingSettings([mode |-> "upscale"]))
    /\ preset_menu' = "Custom"
    /\ format_menu' = "PNG"
    /\ quality_slider' = 95
    /\ uiOps' = uiOps + 1
    /\ UNCHANGED <<presetOps, custom_settings, hand_set, reached>>
    /\ UiFrame

\* _on_format_change(value)
OnFormatChange ==
    /\ UiReady
    /\ \E value \in Formats :
          /\ format_menu' = value
          /\ app_settings' = [app_settings EXCEPT !.output_format = value]
    /\ uiOps' = uiOps + 1
    /\ UNCHANGED <<presetOps, custom_settings, sliders, quality_slider,
                   preset_menu, hand_set, reached>>
    /\ UiFrame

\* _on_quality_change(value): the quality slider runs from 1 to 100
OnQualityChange ==
    /\ UiReady
    /\ \E v \in {100, 10000, 250, 9950} :
          /\ quality_slider' = RoundHalfEven(v, 100)
          /\ app_settings' =
                [app_settings EXCEPT !.jpeg_quality = RoundHalfEven(v, 100)]
    /\ uiOps' = uiOps + 1
    /\ UNCHANGED <<presetOps, custom_settings, sliders, format_menu,
                   preset_menu, hand_set, reached>>
    /\ UiFrame

\* _kick_preview and _bg_export: process_image(img, self.settings.copy())
AppProcess ==
    /\ UiReady
    /\ reached' = <<Copy(app_settings)>>
    /\ uiOps' = uiOps + 1
    /\ UNCHANGED <<presetOps, app_settings, custom_settings, sliders,
                   quality_slider, format_menu, preset_menu, hand_set>>
    /\ UiFrame

\* arguments a caller of the module gives the dataclass, one field each
DirectArguments ==
    {[upscale_factor |-> 2], [upscale_factor |-> 9], [upscale_factor |-> 0],
     [downscale_factor |-> 50], [blur_radius |-> 305], [edge_trim |-> 51],
     [noise_reduction |-> 6], [jpeg_quality |-> 0], [contrast |-> 250]}

\* process_image(img, ProcessingSettings(**kw)) called on the module itself
DirectProcess ==
    /\ UiReady
    /\ \E kw \in DirectArguments : reached' = <<ProcessingSettings(kw)>>
    /\ uiOps' = uiOps + 1
    /\ UNCHANGED <<presetOps, app_settings, custom_settings, sliders,
                   quality_slider, format_menu, preset_menu, hand_set>>
    /\ UiFrame

-----------------------------------------------------------------------------
(* App: image list, temporary directories, preview and export (src/main.py) *)
(* The main thread runs the event handlers one at a time; the export       *)
(* thread and the preview threads run beside it.  _export_progress, which  *)
(* only repaints widgets, is left out.                                     *)

\* ImageInfo.from_path(path): the fields the App reads later
ImageInfo(path) == [path |-> path, filename |-> path.comps[Len(path.comps)]]

\* what a temporary directory holds after shutil.rmtree
RemovedDir == "removed"

\* shutil.rmtree(d, ignore_errors=True) for every d in dirs
RemoveDirs(tf, dirs) ==
    [n \in 1..Len(tf) |->
        IF TmpDir(n) \in Range(dirs) THEN [tf[n] EXCEPT !.zid = RemovedDir]
        ELSE tf[n]]

\* os.path.splitext(info.filename)[0], as the pieces of the string
BaseOf(filename) == <<filename.s, filename.i>>

ext_map == [PNG |-> ".png", JPEG |-> ".jpg", WEBP |-> ".webp"]

\* out_name = base + out_ext
PlainName(base, ext) == base \o <<ext>>

\* out_name = f"{base} ({n}){out_ext}"
SuffixedName(base, n, ext) == base \o <<" (", n, ")", ext>>

\* (variant: only the names of this batch are looked at)
NameTakenInBatchOnly(name, used, files) == name \in used

\* out_name in used_names or os.path.exists(out_path)
NameTaken(name, used, files) == name \in used \/ name \in files

RECURSIVE FreeName(_, _, _, _, _, _)
\* while <taken>: out_name = f"{base} ({n}){out_ext}"; n += 1
FreeName(out_name, base, ext, n, used, files) ==
    IF NameTaken(out_name, used, files)
    THEN FreeName(SuffixedName(base, n, ext), base, ext, n + 1, used, files)
    ELSE out_name

\* the name _bg_export gives the output of info
OutName(info, ext, used, files) ==
    FreeName(PlainName(BaseOf(info.filename), ext), BaseOf(info.filename),
             ext, 1, used, files)

RECURSIVE AddNew(_, _, _)
\* the loop of _add_paths over new_paths: a path already listed is skipped
AddNew(infos, new_paths, i) ==
    IF i > Len(new_paths) THEN infos
    ELSE IF \E j \in 1..Len(infos) : infos[j].path = new_paths[i]
         THEN AddNew(infos, new_paths, i + 1)
         ELSE AddNew(Append(infos, ImageInfo(new_paths[i])), new_paths, i + 1)

\* (variant: the flag is never looked at)
CancelSeenNever == FALSE

\* if self.export_cancelled:
CancelSeen == export_cancelled

\* a callback posted with self.after(0, ...)
Callback(fn, a, b, c) == [fn |-> fn, a |-> a, b |-> b, c |-> c]

threadVars == <<epc, total, export_settings, batch, ok, fail, used_names,
                ei, einfo, dest, saved>>

PanelFrame ==
    /\ UNCHANGED pipeVars
    /\ UNCHANGED <<custom_settings, sliders, quality_slider, preset_menu,
                   hand_set, reached, uiOps, presetOps>>
    /\ UNCHANGED <<zipN, zipM, paths, idx, images, seen, temp_dirs, dpc>>
    /\ UNCHANGED encVars

AppFrame ==
    /\ PanelFrame
    /\ UNCHANGED <<app_settings, format_menu>>

A(comps) == Path(TRUE, comps)
R(comps) == Path(FALSE, comps)

\* the flat archive, whose contents zipN and zipM describe
FlatZipPath == Raw(<< >>, A(Home \o <<Name("flat", 0, ".zip")>>), << >>)

\* what the user drops on the window
AddChoices ==
    { <<Raw(<< >>, A(Pics \o <<Name("a", 0, ".png")>>), << >>)>>,
      <<FlatZipPath>> }

\* _add_paths(paths)
AddPaths ==
    /\ ~closed
    /\ requests < MaxRequests
    /\ \E ps \in AddChoices :
         LET st == CollectFrom(ps, 1, [EmptyState EXCEPT !.tmpfs = tmpfs],
                               zipN, zipM)
             infos == AddNew(image_infos, st.images, 1)
         IN  /\ tmpfs' = st.tmpfs
             /\ IF st.exc # "none"
                THEN UNCHANGED <<image_infos, app_temp_dirs, preview_timer>>
                ELSE /\ app_temp_dirs' = app_temp_dirs \o st.temp_dirs
                     /\ image_infos' = infos
                     /\ preview_timer' =
                          (preview_timer \/ Len(infos) > Len(image_infos))
    /\ requests' = requests + 1
    /\ UNCHANGED <<previews, displayed, export_cancelled, export_btn, after_q,
                   report, closed>>
    /\ UNCHANGED threadVars
    /\ AppFrame

\* _cleanup_temp_dirs()
CleanupTempDirs ==
    /\ tmpfs' = RemoveDirs(tmpfs, app_temp_dirs)
    /\ app_temp_dirs' = << >>

\* _clear_all()
ClearAll ==
    /\ ~closed
    /\ image_infos' = << >>
    /\ CleanupTempDirs
    /\ displayed' = << >>
    /\ UNCHANGED <<preview_timer, previews, export_cancelled, export_btn,
                   after_q, report, closed, requests>>
    /\ UNCHANGED threadVars
    /\ AppFrame

\* _on_close(): the directories are removed and the window destroyed; the
\* threads that still run are daemon threads
OnClose ==
    /\ ~closed
    /\ CleanupTempDirs
    /\ closed' = TRUE
    /\ UNCHANGED <<image_infos, preview_timer, previews, displayed,
                   export_cancelled, export_btn, after_q, report, requests>>
    /\ UNCHANGED threadVars
    /\ AppFrame

\* _on_format_change(value), with the timer _schedule_preview_update sets
ChangeFormat ==
    /\ ~closed
    /\ requests < MaxRequests
    /\ \E value \in Formats :
          /\ format_menu' = value
          /\ app_settings' = [app_settings EXCEPT !.output_format = value]
    /\ preview_timer' = TRUE
    /\ requests' = requests + 1
    /\ UNCHANGED <<image_infos, app_temp_dirs, previews, displayed,
                   export_cancelled, export_btn, after_q, report, closed,
                   tmpfs>>
    /\ UNCHANGED threadVars
    /\ PanelFrame

\* threading.Thread(target=self._bg_process_preview, args=(info, settings))
PreviewThread(info, s) == [info |-> info, settings |-> s]

\* the timer set by _schedule_preview_update fires: _kick_preview()
KickPreview ==
    /\ ~closed
    /\ preview_timer
    /\ preview_timer' = FALSE
    /\ IF image_infos = << >> THEN UNCHANGED previews
       ELSE LET preview_index == 0
                i == Min(preview_index, Len(image_infos) - 1)
            IN  previews' = previews \cup
                   {PreviewThread(image_infos[i + 1], Copy(app_settings))}
    /\ UNCHANGED <<image_infos, app_temp_dirs, displayed, export_cancelled,
                   export_btn, after_q, report, closed, requests, tmpfs>>
    /\ UNCHANGED threadVars
    /\ AppFrame

\* a preview thread ends: _bg_process_preview opens the file, processes it
\* with the settings it was given and posts _show_preview, or _preview_error
\* when the file cannot be opened
PreviewDone ==
    /\ ~closed
    /\ \E t \in previews :
          /\ previews' = previews \ {t}
          /\ after_q' = Append(after_q,
                IF IsFile(t.info.path, tmpfs, zipN, zipM)
                THEN Callback("show", t, 0, FALSE)
                ELSE Callback("error", t, 0, FALSE))
    /\ UNCHANGED <<image_infos, app_temp_dirs, preview_timer, displayed,
                   export_cancelled, export_btn, report, closed, requests,
                   tmpfs>>
    /\ UNCHANGED threadVars
    /\ AppFrame

\* _export(): the user confirms both dialogs and the thread is started
Export ==
    /\ ~closed
    /\ export_btn = "export"
    /\ image_infos # << >>
    /\ requests < MaxRequests
    /\ requests' = requests + 1
    /\ export_cancelled' = FALSE
    /\ export_btn' = "cancel"
    /\ epc' = "begin"
    /\ report' = << >>
    /\ UNCHANGED <<image_infos, app_temp_dirs, preview_timer, previews,
                   displayed, after_q, closed, tmpfs>>
    /\ UNCHANGED <<total, export_settings, batch, ok, fail, used_names, ei,
                   einfo, dest, saved>>
    /\ AppFrame

\* _cancel_export()
CancelExport ==
    /\ ~closed
    /\ export_btn = "cancel"
    /\ export_cancelled' = TRUE
    /\ UNCHANGED <<image_infos, app_temp_dirs, preview_timer, previews,
                   displayed, export_btn, after_q, report, closed, requests,
                   tmpfs>>
    /\ UNCHANGED threadVars
    /\ AppFrame

\* the main loop runs the next posted callback: _export_done(s, f,
\* cancelled), _show_preview(...) or _preview_error(msg)
RunCallback ==
    /\ ~closed
    /\ after_q # << >>
    /\ after_q' = Tail(after_q)
    /\ LET cb == Head(after_q)
       IN  IF cb.fn = "done"
           THEN /\ export_btn' = "export"
                /\ report' = <<[succeeded |-> cb.a, failed |-> cb.b,
                                cancelled |-> cb.c]>>
                /\ UNCHANGED displayed
           ELSE /\ displayed' = IF cb.fn = "show" THEN <<cb.a>> ELSE << >>
                /\ UNCHANGED <<export_btn, report>>
    /\ UNCHANGED <<image_infos, app_temp_dirs, preview_timer, previews,
                   export_cancelled, closed, requests, tmpfs>>
    /\ UNCHANGED threadVars
    /\ AppFrame

mainVars == <<image_infos, app_temp_dirs, preview_timer, previews,
              displayed, export_cancelled, export_btn, report, closed, requests,
              tmpfs>>

\* (variant: a cancelled export posts nothing)
PostExportDoneUnlessCancelled(cancelled) ==
    IF cancelled THEN after_q
    ELSE Append(after_q, Callback("done", ok, fail, cancelled))

\* self.after(0, lambda s=ok, f=fail: self._export_done(s, f, cancelled))
PostExportDone(cancelled) ==
    Append(after_q, Callback("done", ok, fail, cancelled))

\* _bg_export, up to the loop: total = len(self.image_infos); settings =
\* self.settings.copy(); ok = 0; ...
ExportBegin ==
    /\ ~closed
    /\ epc = "begin"
    /\ total' = Len(image_infos)
    /\ batch' = image_infos
    /\ export_settings' = <<Copy(app_settings)>>
    /\ ok' = 0
    /\ fail' = 0
    /\ used_names' = {}
    /\ ei' = 0
    /\ saved' = << >>
    /\ epc' = "check"
    /\ UNCHANGED <<einfo, dest, after_q>>
    /\ UNCHANGED mainVars
    /\ AppFrame

\* the head of `for i, info in enumerate(self.image_infos)`: the list
\* iterator yields the next item of the list as it is now, then the flag is
\* tested; after the last item the loop ends and _export_done is posted
ExportNext ==
    /\ ~closed
    /\ epc = "check"
    /\ IF ei >= Len(image_infos)
       THEN /\ after_q' = PostExportDone(FALSE)
            /\ epc' = "idle"
            /\ UNCHANGED <<ei, einfo>>
       ELSE IF CancelSeen
       THEN /\ after_q' = PostExportDone(TRUE)
            /\ epc' = "idle"
            /\ ei' = ei + 1
            /\ UNCHANGED einfo
       ELSE /\ einfo' = <<image_infos[ei + 1]>>
            /\ ei' = ei + 1
            /\ epc' = "work"
            /\ UNCHANGED after_q
    /\ UNCHANGED <<total, export_settings, batch, ok, fail, used_names, dest,
                   saved>>
    /\ UNCHANGED mainVars
    /\ AppFrame

\* the try block of the loop: open, process, choose the name, save.  The
\* file may be gone, the decoding or the saving may fail.
ExportWork ==
    /\ ~closed
    /\ epc = "work"
    /\ LET info == einfo[1]
           ext == ext_map[export_settings[1].output_format]
           out_name == OutName(info, ext, used_names, dest)
       IN  \E outcome \in {"saved", "decode error", "save error"} :
              IF outcome = "decode error"
                    \/ ~IsFile(info.path, tmpfs, zipN, zipM)
              THEN /\ fail' = fail + 1
                   /\ UNCHANGED <<ok, used_names, dest, saved>>
              ELSE IF outcome = "save error"
              THEN /\ used_names' = used_names \cup {out_name}
                   /\ fail' = fail + 1
                   /\ UNCHANGED <<ok, dest, saved>>
              ELSE /\ used_names' = used_names \cup {out_name}
                   /\ dest' = dest \cup {out_name}
                   /\ saved' = Append(saved, out_name)
                   /\ ok' = ok + 1
                   /\ UNCHANGED fail
    /\ einfo' = << >>
    /\ epc' = "check"
    /\ UNCHANGED <<total, export_settings, batch, ei, after_q>>
    /\ UNCHANGED mainVars
    /\ AppFrame

\* the files found in the output directory
DestChoices ==
    { {},
      {PlainName(<<"img", 1>>, ".png")},
      {PlainName(<<"img", 1>>, ".png"), SuffixedName(<<"img", 1>>, 1, ".png")} }

-----------------------------------------------------------------------------
(* Inputs *)

\* source sizes for the dimension arithmetic
DimSizes == {1, 2, 3, 100, 150, 2150}

\* every upscale_factor and downscale_factor the sliders can produce, with the
\* other passes either all off or at the dataclass defaults
DimSettings ==
    {[b EXCEPT !.upscale_factor = u, !.downscale_factor = d] :
        b \in {Disabled, DefaultSettings},
        u \in UpscaleMin..UpscaleMax, d \in DownscaleMin..DownscaleMax}

DimSources ==
    {Image("RGBA", w, h, {}) : w \in DimSizes, h \in {1, 100}}

\* alpha channels of a small raster: opaque, one transparent pixel, one
\* opaque pixel
AlphaChoices(w, h) ==
    {{}} \cup {{p} : p \in Grid(w, h)} \cup {Grid(w, h) \ {p} : p \in Grid(w, h)}

PixelSources ==
    UNION {{Image("RGBA", w, h, T) : T \in AlphaChoices(w, h)}
               \cup {Image("RGB", w, h, {})} :
           w \in 1..MaxGrid, h \in 1..MaxGrid}

\* the multiplicative factors: neutral, one changed, all changed
EnhanceChoices ==
    {<<100, 100, 100>>, <<105, 100, 100>>, <<100, 105, 100>>,
     <<100, 100, 110>>, <<50, 0, 200>>}

PixelSettings ==
    {[Disabled EXCEPT !.upscale_factor = u, !.downscale_factor = d,
                      !.blur_radius = b, !.sharpen_amount = a,
                      !.contrast = e[1], !.saturation = e[2],
                      !.brightness = e[3], !.noise_reduction = n,
                      !.edge_trim = t] :
        u \in {1, 2}, d \in {90, 100}, b \in {0, 60}, a \in {0, 120},
        e \in EnhanceChoices, n \in {0, 1}, t \in 0..MaxTrim}

\* every pass off, the fields no gate reads varied
RestSettings ==
    {[Disabled EXCEPT !.sharpen_radius = r, !.sharpen_threshold = t,
                      !.output_format = f, !.jpeg_quality = q] :
        r \in {0, 500}, t \in {0, 10}, f \in Formats, q \in {1, 100}}

\* one-row rasters wide enough for successive erosions to differ
TrimSources ==
    {Image("RGBA", MaxGrid + 2, 1, T) : T \in SUBSET Grid(MaxGrid + 2, 1)}

PipeInputs ==
    (DimSources \X DimSettings)
        \cup (PixelSources \X (PixelSettings \cup RestSettings))
        \cup (TrimSources \X PixelSettings)

\* the path strings a caller passes
PathChoices ==
    { Raw(<< >>, A(Pics), << >>),
      Raw(<< >>, R(<<Name("pics", 0, "")>>), << >>),
      Raw(<< >>, A(Pics \o <<Name("a", 0, ".png")>>), << >>),
      Raw(<<" ", "\"">>, A(Pics \o <<Name("a", 0, ".png")>>), <<"\"", " ">>),
      Raw(<<"'", "\"">>, A(Pics \o <<Name("a", 0, ".png")>>), <<"\"", "'">>),
      Raw(<< >>, R(<<Name("pics", 0, ""), Name("a", 0, ".png")>>), << >>),
      Raw(<< >>, A(Pics \o <<Name("sub", 0, "")>>), << >>),
      Raw(<< >>, A(Pics \o <<Name("notes", 0, ".txt")>>), << >>),
      Raw(<< >>, A(Home \o <<Name("flat", 0, ".zip")>>), << >>),
      Raw(<< >>, A(Home \o <<Name("outer", 0, ".zip")>>), << >>),
      Raw(<< >>, A(Home \o <<Name("missing", 0, ".png")>>), << >>),
      Raw(<< >>, A(Home \o <<Name("locked", 0, ".zip")>>), << >>),
      Raw(<< >>, A(Home \o <<Name("bad", 0, ".zip")>>), << >>),
      Raw(<< >>, A(Home \o <<Name("report", 0, ".docx")>>), << >>),
      Raw(<< >>, A(Home \o <<Name("self", 0, ".zip")>>), << >>),
      Raw(<< >>, A(Mixed), << >>) }

PathLists == UNION {[1..n -> PathChoices] : n \in 0..MaxPaths}

-----------------------------------------------------------------------------
(* Specifications *)

PipeIdle ==
    /\ settings = DefaultSettings
    /\ srcW = 1
    /\ srcH = 1
    /\ heap = << >>
    /\ orig = Image("RGBA", 1, 1, {})
    /\ img = 0
    /\ calls = << >>
    /\ pc = "idle"

DiscIdle ==
    /\ zipN = 0
    /\ zipM = 0
    /\ paths = << >>
    /\ idx = 1
    /\ images = << >>
    /\ seen = {}
    /\ temp_dirs = << >>
    /\ tmpfs = << >>
    /\ dpc = "idle"

UiIdle ==
    /\ app_settings = DefaultSettings
    /\ custom_settings = DefaultSettings
    /\ sliders = [attr \in SliderAttrs |-> DefaultSettings[attr]]
    /\ quality_slider = 95
    /\ format_menu = "PNG"
    /\ preset_menu = "Custom"
    /\ hand_set = << >>
    /\ reached = << >>
    /\ uiOps = 0
    /\ presetOps = 0

EncIdle ==
    /\ enc_img = Image("RGBA", 1, 1, {})
    /\ enc_settings = DefaultSettings
    /\ file = << >>
    /\ estimate = << >>

AppIdle ==
    /\ image_infos = << >>
    /\ app_temp_dirs = << >>
    /\ preview_timer = FALSE
    /\ previews = {}
    /\ displayed = << >>
    /\ export_cancelled = FALSE
    /\ export_btn = "export"
    /\ epc = "idle"
    /\ total = 0
    /\ export_settings = << >>
    /\ batch = << >>
    /\ ok = 0
    /\ fail = 0
    /\ used_names = {}
    /\ ei = 0
    /\ einfo = << >>
    /\ dest = {}
    /\ saved = << >>
    /\ after_q = << >>
    /\ report = << >>
    /\ closed = FALSE
    /\ requests = 0

\* process_image(img, settings) has just been called
PipeInit ==
    /\ \E in \in PipeInputs :
          /\ heap = <<in[1]>>
          /\ orig = in[1]
          /\ srcW = in[1].w
          /\ srcH = in[1].h
          /\ settings = in[2]
    /\ img = 1
    /\ calls = << >>
    /\ pc = "convert"
    /\ DiscIdle
    /\ UiIdle
    /\ AppIdle
    /\ EncIdle

PipeNext ==
    \/ Convert
    \/ Upscale
    \/ Blur
    \/ Sharpen
    \/ Downscale
    \/ Contrast
    \/ Saturation
    \/ Brightness
    \/ Noise
    \/ Erode

PipelineSpec == PipeInit /\ [][PipeNext]_vars

\* collect_images(paths) has just been called
DiscInit ==
    /\ paths \in PathLists
    /\ zipN \in (IF FlatZipPath \in Range(paths) THEN 0..MaxN ELSE {0})
    /\ zipM \in (IF FlatZipPath \in Range(paths) THEN 0..MaxM ELSE {0})
    /\ idx = 1
    /\ images = << >>
    /\ seen = {}
    /\ temp_dirs = << >>
    /\ tmpfs = << >>
    /\ dpc = "loop"
    /\ PipeIdle
    /\ UiIdle
    /\ AppIdle
    /\ EncIdle

DiscNext ==
    \/ SkipMissing
    \/ ScanDir
    \/ ExtractZip
    \/ AddFile
    \/ CollectReturn

DiscoverySpec == DiscInit /\ [][DiscNext]_vars

\* App.__init__: self.settings = ProcessingSettings(), the sliders set to
\* their defaults
SettingsInit ==
    /\ app_settings = ProcessingSettings([mode |-> "upscale"])
    /\ custom_settings = Copy(app_settings)
    /\ sliders = [attr \in SliderAttrs |-> DefaultSettings[attr]]
    /\ quality_slider = 95
    /\ format_menu = "PNG"
    /\ preset_menu = "Custom"
    /\ hand_set = << >>
    /\ reached = << >>
    /\ uiOps = 0
    /\ presetOps = 0
    /\ PipeIdle
    /\ DiscIdle
    /\ AppIdle
    /\ EncIdle

SettingsNext ==
    \/ OnSliderChange
    \/ StepSlider
    \/ OnPresetChange
    \/ OnPresetCustom
    \/ ResetSettings
    \/ OnFormatChange
    \/ OnQualityChange
    \/ AppProcess
    \/ DirectProcess

SettingsSpec == SettingsInit /\ [][SettingsNext]_vars

\* App.__init__, with an output directory that may already hold files; the
\* flat archive on disk holds one image
AppInit ==
    /\ image_infos = << >>
    /\ app_temp_dirs = << >>
    /\ preview_timer = FALSE
    /\ previews = {}
    /\ displayed = << >>
    /\ export_cancelled = FALSE
    /\ export_btn = "export"
    /\ epc = "idle"
    /\ total = 0
    /\ export_settings = << >>
    /\ batch = << >>
    /\ ok = 0
    /\ fail = 0
    /\ used_names = {}
    /\ ei = 0
    /\ einfo = << >>
    /\ dest \in DestChoices
    /\ saved = << >>
    /\ after_q = << >>
    /\ report = << >>
    /\ closed = FALSE
    /\ requests = 0
    /\ app_settings = DefaultSettings
    /\ custom_settings = DefaultSettings
    /\ sliders = [attr \in SliderAttrs |-> DefaultSettings[attr]]
    /\ quality_slider = 95
    /\ format_menu = "PNG"
    /\ preset_menu = "Custom"
    /\ hand_set = << >>
    /\ reached = << >>
    /\ uiOps = 0
    /\ presetOps = 0
    /\ zipN = 1
    /\ zipM = 0
    /\ paths = << >>
    /\ idx = 1
    /\ images = << >>
    /\ seen = {}
    /\ temp_dirs = << >>
    /\ tmpfs = << >>
    /\ dpc = "idle"
    /\ PipeIdle
    /\ EncIdle

\* the image list, the temporary directories and the export
AppNext ==
    \/ AddPaths
    \/ ClearAll
    \/ OnClose
    \/ Export
    \/ CancelExport
    \/ RunCallback
    \/ ExportBegin
    \/ ExportNext
    \/ ExportWork

AppSpec == AppInit /\ [][AppNext]_vars

\* App.__init__, with an empty output directory
ThreadsInit ==
    /\ AppInit
    /\ dest = {}

\* the settings, the preview threads and the export thread
ThreadsNext ==
    \/ AddPaths
    \/ ClearAll
    \/ ChangeFormat
    \/ KickPreview
    \/ PreviewDone
    \/ RunCallback
    \/ Export
    \/ ExportBegin
    \/ ExportNext
    \/ ExportWork

ThreadsSpec == ThreadsInit /\ [][ThreadsNext]_vars

\* AppSpec with an export thread that is scheduled as long as it can run and
\* a main loop that runs the callbacks posted to it
ExportFairSpec ==
    /\ AppSpec
    /\ WF_vars(ExportBegin)
    /\ WF_vars(ExportNext)
    /\ WF_vars(ExportWork)
    /\ WF_vars(RunCallback)

\* the format names a caller may set
OutputFormats == {"PNG", "JPEG", "WEBP", "JPG", "jpg", "webp", "png"}

\* the buffers handed to the encoders: with and without an alpha band
EncodeSources ==
    {Image(m, MaxGrid, 1, T) : m \in AlphaModes, T \in SUBSET Grid(MaxGrid, 1)}
        \cup {Image(m, MaxGrid, 1, {}) : m \in {"RGB", "L"}}

\* save_image or estimate_output_size is about to be called
EncodeInit ==
    /\ enc_img \in EncodeSources
    /\ \E f \in OutputFormats, q \in {1, 95, 100} :
          enc_settings = [DefaultSettings EXCEPT !.output_format = f,
                                                 !.jpeg_quality = q]
    /\ file = << >>
    /\ estimate = << >>
    /\ PipeIdle
    /\ DiscIdle
    /\ UiIdle
    /\ AppIdle

EncodeNext ==
    \/ SaveImage
    \/ EstimateOutputSize

EncodeSpec == EncodeInit /\ [][EncodeNext]_vars

-----------------------------------------------------------------------------
(* Properties of process_image and get_output_dimensions *)

Predicted == get_output_dimensions(srcW, srcH, settings)

\* C1: the predicted dimensions equal the dimensions of the image that
\* process_image returns for the same source size and settings; a 100x100
\* source with upscale_factor 2 and downscale_factor 0.9 gives 180x180 from
\* both.
C1_PredictEqualsRun ==
    pc = "done" =>
        /\ Predicted = <<Result.w, Result.h>>
        /\ (srcW = 100 /\ srcH = 100 /\ settings.upscale_factor = 2
              /\ settings.downscale_factor = 90)
           => Predicted = <<180, 180>>

C1_Witness ==
    /\ pc = "done"
    /\ srcW = 100 /\ srcH = 100
    /\ settings.upscale_factor = 2 /\ settings.downscale_factor = 90
    /\ Result.w = 180 /\ Result.h = 180

\* round(q / 100), halves to the even neighbour
RoundHundredths(q) ==
    LET f == q \div 100
        r == q % 100
    IN  IF r > 50 \/ (r = 50 /\ f % 2 = 1) THEN f + 1 ELSE f

\* C2 as stated: each predicted and produced dimension is
\* round(src * upscale_factor * downscale_factor), raised to at least 1.
C2_RoundedProduct ==
    pc = "done" =>
        LET u == settings.upscale_factor
            d == settings.downscale_factor
            rw == Max(1, RoundHundredths(srcW * u * d))
            rh == Max(1, RoundHundredths(srcH * u * d))
        IN  Predicted = <<rw, rh>> /\ <<Result.w, Result.h>> = <<rw, rh>>

\* dimension v is src * u * d/100 truncated, never rounded up: it is at most
\* the product (unless raised to 1), less than one below it, or exactly one
\* below it when the product is a whole number; with d = 1.0 it is src * u.
TruncatedProduct(v, src, u, d) ==
    LET q == src * u * d
    IN  /\ v >= 1
        /\ 100 * v <= q \/ v = 1
        /\ 100 * (v + 1) > q \/ (q % 100 = 0 /\ 100 * (v + 1) = q)
        /\ d = One => v = src * u

\* C2 (amended): each predicted and produced dimension is the product
\* src * upscale_factor * downscale_factor truncated toward zero as the
\* double-precision int() does, raised to at least 1: 2 * 1 * 0.80 gives 1,
\* 150 * 1 * 0.82 gives 122.
C2_TruncatedProduct ==
    pc = "done" =>
        /\ TruncatedProduct(Predicted[1], srcW, settings.upscale_factor,
                            settings.downscale_factor)
        /\ TruncatedProduct(Predicted[2], srcH, settings.upscale_factor,
                            settings.downscale_factor)
        /\ TruncatedProduct(Result.w, srcW, settings.upscale_factor,
                            settings.downscale_factor)
        /\ TruncatedProduct(Result.h, srcH, settings.upscale_factor,
                            settings.downscale_factor)
        /\ (srcW = 2 /\ settings.upscale_factor = 1
              /\ settings.downscale_factor = 80) => Predicted[1] = 1
        /\ (srcW = 150 /\ settings.upscale_factor = 1
              /\ settings.downscale_factor = 82) => Predicted[1] = 122

C2_Witness ==
    /\ pc = "done"
    /\ srcW = 150 /\ settings.upscale_factor = 1
    /\ settings.downscale_factor = 82
    /\ Result.w = 122

AllDisabled(s) ==
    /\ s.upscale_factor = 1 /\ s.blur_radius = 0 /\ s.sharpen_amount = 0
    /\ s.downscale_factor = One /\ s.contrast = One /\ s.saturation = One
    /\ s.brightness = One /\ s.noise_reduction = 0 /\ s.edge_trim = 0

\* C3: with every filter disabled process_image returns a buffer that is
\* pixel-identical to its RGBA input, whatever sharpen_radius,
\* sharpen_threshold, output_format and jpeg_quality are.
C3_IdentityWhenDisabled ==
    (pc = "done" /\ AllDisabled(settings) /\ orig.mode = "RGBA") =>
        /\ Pixels(Result) = Pixels(orig)
        /\ calls = << >>

C3_Witness ==
    /\ pc = "done" /\ AllDisabled(settings) /\ orig.mode = "RGBA"
    /\ orig.T # {} /\ orig.T # Grid(orig.w, orig.h)
    /\ settings.sharpen_radius = 500 /\ settings.output_format = "JPEG"
    /\ Pixels(Result) = Pixels(orig)

\* C4: the buffer object the caller passed in has the same pixels and the
\* same alpha channel during and after the call as before it.
C4_CallerBufferUntouched ==
    pc # "idle" => heap[1] = orig

\* the pass that made a call
PassOf(c) == c.c

\* C5: the passes that execute do so in the order upscale, pre-blur, unsharp
\* mask, downscale, contrast, saturation, brightness, noise reduction, edge
\* erosion; upscale when enabled is first, edge erosion when enabled is last
\* and reads the alpha channel of the object the earlier passes produced.
C5_StageOrder ==
    /\ \A i, j \in 1..Len(calls) :
          i < j => /\ PassOf(calls[i]) <= PassOf(calls[j])
                   /\ PassOf(calls[i]) = PassOf(calls[j])
                         => PassOf(calls[i]) = 9
    /\ \A i \in 1..Len(calls) :
          PassOf(calls[i]) = 1 => \A j \in 1..(i - 1) : PassOf(calls[j]) = 0
    /\ \A i \in 1..Len(calls) :
          PassOf(calls[i]) = 9 =>
              calls[i].on = 1 + Cardinality({j \in 1..Len(calls) :
                                                PassOf(calls[j]) < 9})
    /\ pc = "done" =>
          /\ UpscaleGate(settings) =>
                \E i \in 1..Len(calls) : PassOf(calls[i]) = 1
          /\ ErodeGate(settings, Result) =>
                (calls # << >> /\ PassOf(calls[Len(calls)]) = 9)

C5_Witness ==
    /\ pc = "done"
    /\ Len(calls) >= 10
    /\ PassOf(calls[1]) = 0
    /\ PassOf(calls[2]) = 1
    /\ PassOf(calls[Len(calls)]) = 9

-----------------------------------------------------------------------------
(* Properties of collect_images *)

TmpRoot == <<Name("tmp", 0, "")>>

InTemp(fp) == fp.abs /\ Len(fp.comps) >= 2 /\ IsPrefix(TmpRoot, fp.comps)

RECURSIVE Origin(_, _)
\* what a listed path is a copy of: the file on disk it names, or the member
\* of the archive (itself located by its origin) it was extracted from
Origin(fp, tf) ==
    IF InTemp(fp)
    THEN Origin(tf[fp.comps[2].i].from, tf)
            \o <<Name("!", 0, "")>> \o SubSeq(fp.comps, 3, Len(fp.comps))
    ELSE Resolve(fp)

Origins(st) == {Origin(st.images[i], st.tmpfs) : i \in 1..Len(st.images)}

\* C6: collect_images([p, p]) returns the same set of images as
\* collect_images([p]), with no image listed twice, for an image file, a
\* directory or a ZIP archive p.
C6_DuplicateInputIdempotent ==
    (dpc = "returned" /\ Len(paths) = 2 /\ paths[1] = paths[2]) =>
        LET once == collect_images(<<paths[1]>>, zipN, zipM)
        IN  /\ Origins(Current) = Origins(once)
            /\ Len(images) = Len(once.images)
            /\ Cardinality(Origins(Current)) = Len(images)

\* C7: every image file appears at most once in the list, however it was
\* reached and however its path was spelled.
C7_EachFileOnce ==
    \A i, j \in 1..Len(images) :
        i # j => Resolve(images[i]) # Resolve(images[j])

\* C8: every path in the returned image list is an absolute path.
C8_AllAbsolute ==
    dpc = "returned" => \A i \in 1..Len(images) : images[i].abs

\* C9: a single valid ZIP archive holding N supported image files and M
\* unsupported files yields exactly N image paths, all inside the extraction
\* directory, and exactly one temporary directory.
C9_FlatZipCounts ==
    (dpc = "returned" /\ paths = <<FlatZipPath>>) =>
        /\ Len(images) = zipN
        /\ Cardinality(Range(images)) = zipN
        /\ Len(temp_dirs) = 1
        /\ \A i \in 1..Len(images) :
              /\ IsPrefix(temp_dirs[1].comps, images[i].comps)
              /\ Len(images[i].comps) > Len(temp_dirs[1].comps)
              /\ images[i].abs = temp_dirs[1].abs

C9_Witness ==
    /\ dpc = "returned" /\ paths = <<FlatZipPath>>
    /\ zipN >= 2 /\ zipM >= 1
    /\ Len(images) = zipN /\ Len(temp_dirs) = 1

IsZipName(f) == Lower(SplitExt(f)) = ".zip"

\* the archives extracted from the file spelled fp
ExtractionsOf(fp) == {m \in 1..Len(tmpfs) : tmpfs[m].from = fp}

OnDisk(raw) == PathExists(Strip(raw), EmptyState, zipN, zipM)

\* the file a direct entry names holds archive zid
DirectZid(raw) ==
    IF OnDisk(raw) /\ IsFile(Strip(raw).path, << >>, zipN, zipM)
    THEN ZidOf(Strip(raw).path, << >>, zipN, zipM)
    ELSE NotZip

\* a bad entry: a path that does not exist, a file named *.zip that is not a
\* ZIP container, or an archive whose extraction fails
BadEntry(raw) ==
    \/ ~OnDisk(raw)
    \/ ExtractError(DirectZid(raw)) # "none"
    \/ /\ IsFile(Strip(raw).path, << >>, zipN, zipM)
       /\ IsZipName(Strip(raw).path.comps[Len(Strip(raw).path.comps)])
       /\ DirectZid(raw) = NotZip

GoodEntry(raw) == ~BadEntry(raw)

\* C11: collect_images never aborts on a bad entry (a nonexistent path, a
\* corrupt or invalid ZIP, an archive whose extraction fails): it raises
\* no error and returns the images of the good entries.
C11_NeverAborts ==
    /\ dpc # "raised"
    /\ dpc = "returned" =>
          Origins(Current)
              = Origins(collect_images(SelectSeq(paths, GoodEntry), zipN, zipM))

\* C12: a path that does not exist is skipped: whatever collect_images does
\* (its lists, its temporary directories, whether it raises) is what it does
\* on the input list without the entries that do not exist.
C12_MissingSkipped ==
    dpc \in {"returned", "raised"} =>
        LET r == collect_images(SelectSeq(paths, OnDisk), zipN, zipM)
        IN  /\ images = r.images
            /\ seen = r.seen
            /\ temp_dirs = r.temp_dirs
            /\ tmpfs = r.tmpfs
            /\ (dpc = "raised") = (r.exc # "none")

C12_Witness ==
    /\ dpc = "returned"
    /\ Len(paths) = 2
    /\ ~OnDisk(paths[1])
    /\ OnDisk(paths[2])
    /\ images # << >>

\* C13: a directly passed file is extracted only if its extension is .zip
\* and it is a valid container, and is added as an image if its extension
\* is supported.
C13_DirectFileByExtension ==
    \A k \in 1..(idx - 1) :
        LET sp == Strip(paths[k])
            f == sp.path.comps[Len(sp.path.comps)]
        IN  (dpc # "idle" /\ OnDisk(paths[k])
                /\ IsFile(sp.path, << >>, zipN, zipM)) =>
              /\ ExtractionsOf(sp.path) # {}
                    => (IsZipName(f) /\ DirectZid(paths[k]) # NotZip)
              /\ (IsSupported(f) /\ dpc # "raised")
                    => sp.path \in Range(images)

SelfZipPath == Raw(<< >>, A(Home \o <<Name("self", 0, ".zip")>>), << >>)

SelfZipExtracted == \E n \in 1..Len(tmpfs) : tmpfs[n].zid = SelfZip

\* C14 (as stated): discovery has no depth limit, so every valid archive
\* found in an extracted directory is extracted in turn, at any depth, and
\* collect_images never returns from a ZIP that contains itself.
C14_NoDepthLimit ==
    dpc = "returned" =>
        /\ ~SelfZipExtracted
        /\ \A n \in 1..Len(tmpfs) :
              \A e \in Range(Extracted(tmpfs, n, zipN, zipM)) :
                  (IsZipName(e.comps[Len(e.comps)]) /\ e.zid # NotZip)
                      => ExtractionsOf(Path(TRUE, e.comps)) # {}

\* the number of archives between the file fp and the disk
RECURSIVE Nesting(_)
Nesting(fp) ==
    IF InTemp(fp) THEN 1 + Nesting(tmpfs[fp.comps[2].i].from) ELSE 0

\* C14 (amended): the depth of discovery is limited by the call stack.  The
\* loop over the input ends after one iteration per entry, and no archive
\* is extracted from more than RecursionLimit archives deep.  On a ZIP that
\* contains itself each level extracts into a new temporary directory until
\* the stack is full; the RecursionError is swallowed by `except Exception`
\* and collect_images returns: one temporary directory per level, the last
\* one extracted but not scanned, and one image per scanned level.
C14_EndsAtRecursionLimit ==
    /\ idx <= Len(paths) + 1
    /\ \A n \in 1..Len(tmpfs) : Nesting(tmpfs[n].from) <= RecursionLimit
    /\ paths = <<SelfZipPath>> =>
          /\ dpc # "raised"
          /\ dpc = "returned" =>
                /\ idx = 2
                /\ Len(temp_dirs) = RecursionLimit + 1
                /\ Len(images) = RecursionLimit
                /\ \A n \in 1..Len(tmpfs) :
                      /\ tmpfs[n].zid = SelfZip
                      /\ Nesting(tmpfs[n].from) = n - 1

C14_Witness ==
    /\ dpc = "returned"
    /\ paths = <<SelfZipPath>>
    /\ Len(temp_dirs) = RecursionLimit + 1
    /\ Path(TRUE, TmpDir(RecursionLimit).comps \o <<Name("q", 0, ".png")>>)
          \in Range(images)

-----------------------------------------------------------------------------
(* Properties of pass 9 *)

\* the opaque pixels of an image whose alpha channel is still a raster
Opaque(im) == Grid(im.w, im.h) \ im.T

\* the image entering pass 9 eroded n times: what process_image returns with
\* edge_trim = n, no earlier pass reading edge_trim
ErodedBy(im, n) ==
    IF n > 0 /\ im.mode = "RGBA"
    THEN PutAlpha(im, ErodeTimes(GetChannelA(im), n))
    ELSE im

\* C19: edge-trim erosion is monotonic: from the same buffer and the same
\* other settings, the opaque pixels of the output with edge_trim = k+1 are
\* among the opaque pixels of the output with edge_trim = k (where the alpha
\* channel is a resampled or filtered one, the output with k+1 is the output
\* with k under one more MinFilter(3)).
C19_ErosionMonotonic ==
    [][(pc = "erode" /\ settings.edge_trim >= 1) =>
          LET k == settings.edge_trim - 1
              less == ErodedBy(heap[img], k)
              more == heap'[img']
          IN  /\ more = ErodedBy(heap[img], k + 1)
              /\ more.w = less.w /\ more.h = less.h
              /\ IF more.alpha = << >>
                 THEN /\ less.alpha = << >>
                      /\ Opaque(more) \subseteq Opaque(less)
                 ELSE heap[img].mode = "RGBA" =>
                      /\ more.T = less.T
                      /\ more.alpha
                            = Append(less.alpha, Op("MinFilter", 3, 0, 0))]_vars

\* an erosion that removed pixels at step k and again at step k+1
C19_Witness ==
    /\ pc = "done"
    /\ settings.edge_trim >= 2
    /\ Result.alpha = << >>
    /\ orig.mode = "RGBA" /\ orig.alpha = << >>
    /\ Opaque(Result) # Opaque(ErodedBy(orig, settings.edge_trim - 1))
    /\ Opaque(ErodedBy(orig, settings.edge_trim - 1)) # Opaque(orig)
    /\ Opaque(Result) # {}

-----------------------------------------------------------------------------
(* Properties of the settings *)

\* the declared range of every numeric field
InRange(s) ==
    /\ s.upscale_factor \in 1..8
    /\ s.blur_radius \in 0..300
    /\ s.sharpen_radius \in 0..500
    /\ s.sharpen_amount \in 0..300
    /\ s.sharpen_threshold \in 0..10
    /\ s.downscale_factor \in 80..100
    /\ s.contrast \in 0..200
    /\ s.saturation \in 0..200
    /\ s.brightness \in 0..200
    /\ s.noise_reduction \in 0..5
    /\ s.edge_trim \in 0..50
    /\ s.jpeg_quality \in 1..100

\* C20: every settings value that reaches process_image has every field
\* inside its declared range.
C20_SettingsInRange ==
    \A i \in 1..Len(reached) : InRange(reached[i])

\* what does hold: the settings the panel keeps, and so every value the App
\* itself hands to process_image, stay in range under every sequence of
\* slider moves, +/- steps, preset selections and resets
PanelKeepsRanges ==
    /\ InRange(app_settings)
    /\ InRange(custom_settings)
    /\ \A attr \in SliderAttrs : sliders[attr] = app_settings[attr]
    /\ quality_slider \in 1..100

-----------------------------------------------------------------------------
(* Properties of the export *)

\* the export thread has just saved a file
JustSaved == Len(saved') = Len(saved) + 1

\* the names that cannot be given to a new output
Taken == used_names \cup dest \cup Range(saved)

\* C15: every name the export saves under is new: it is not the name of a
\* file in the destination, before or since the export began, and not a name
\* used earlier in the batch; it is base+ext when that is free and otherwise
\* 'base (n)ext' for the smallest n >= 1 that is free
C15_DistinctExportNames ==
    [][JustSaved =>
         LET name == saved'[Len(saved')]
             base == BaseOf(einfo[1].filename)
             ext == ext_map[export_settings[1].output_format]
         IN  /\ name \notin Taken
             /\ \/ name = PlainName(base, ext)
                \/ /\ PlainName(base, ext) \in Taken
                   /\ \E n \in 1..(Cardinality(Taken) + 1) :
                         /\ name = SuffixedName(base, n, ext)
                         /\ \A k \in 1..(n - 1) :
                               SuffixedName(base, k, ext) \in Taken]_vars

\* two images of the same name exported into a directory that holds that
\* name and its first suffixed form
C15_Witness ==
    /\ Len(saved) = 2
    /\ saved[1] = SuffixedName(<<"img", 1>>, 2, ".png")
    /\ saved[2] = SuffixedName(<<"img", 1>>, 3, ".png")
    /\ PlainName(<<"img", 1>>, ".png") \in dest
    /\ fail = 0

\* C16: when an export has ended without cancellation, succeeded + failed
\* is the number of images the batch had
C16_CountsAddUp ==
    (report # << >> /\ ~report[1].cancelled) =>
        report[1].succeeded + report[1].failed = total

\* C17: no image is started once cancellation is requested; an image that
\* has been started is finished (saved, or counted as failed) whatever the
\* flag says; the report carries the number of images saved so far
C17_CancelBetweenIterations ==
    [][/\ (export_cancelled /\ epc # "work") => epc' # "work"
       /\ (epc = "work" /\ epc' # "work") =>
             /\ epc' = "check"
             /\ ok' + fail' = ok + fail + 1
             /\ ok' = ok + 1 <=> JustSaved
       /\ (Len(after_q') > Len(after_q) /\ epc # "idle") =>
             LET cb == after_q'[Len(after_q')]
             IN  /\ cb.a = ok /\ cb.a = Len(saved)
                 /\ cb.b = fail
                 /\ cb.c => export_cancelled
                 /\ epc' = "idle"]_vars

\* an export of two images cancelled while the first was being processed:
\* the first was saved, the second was not started
C17_Witness ==
    /\ report # << >>
    /\ report[1].cancelled
    /\ report[1].succeeded = 1
    /\ report[1].failed = 0
    /\ total = 2
    /\ Len(saved) = 1

\* the record's path lies in the n-th temporary directory
InDir(info, n) == InTemp(info.path) /\ info.path.comps[2].i = n

\* the records in use: the image list, the record the export thread is
\* processing, the records the preview threads hold
InUse ==
    Range(image_infos) \cup Range(einfo) \cup {t.info : t \in previews}

\* C18: while the window is open, no temporary directory has been removed
\* that a record in use refers to
C18_TempDirsOutliveRecords ==
    ~closed =>
        \A n \in 1..Len(tmpfs) :
            tmpfs[n].zid = RemovedDir => \A info \in InUse : ~InDir(info, n)

\* an export has been started and _export_done has not run for it yet
ExportRunning == export_btn = "cancel"

\* _export_done has run for the last export started
ExportReported == export_btn = "export" /\ report # << >>

\* the _export_done calls posted and not run yet
DonePosted == {i \in DOMAIN after_q : after_q[i].fn = "done"}

\* an export that runs has one thread, which posts _export_done once, when
\* it ends; the report carries the thread's counts
OneReport ==
    /\ Cardinality(DonePosted) =
          (IF ExportRunning /\ epc = "idle" THEN 1 ELSE 0)
    /\ ~ExportRunning => epc = "idle"
    /\ report # << >> =>
          /\ ~ExportRunning
          /\ report[1].succeeded = ok
          /\ report[1].failed = fail

\* an export thread is started only when no export is running
NoSecondExport == (epc' = "begin" /\ epc # "begin") => ~ExportRunning

\* C26: every export that is started ends with one completion report, done
\* or cancelled, that carries the counts; then the button is restored and a
\* new export can be started; while one runs no second one is started
C26_ExportAlwaysReports ==
    /\ []OneReport
    /\ [][NoSecondExport]_vars
    /\ ExportRunning ~> ExportReported

\* C26, as it holds: the same, unless the window is closed while the export
\* runs; the thread then ends with the program and nothing is reported
C26_ExportReportsUnlessClosed ==
    /\ []OneReport
    /\ [][NoSecondExport]_vars
    /\ ExportRunning ~> (closed \/ ExportReported)

\* a second export of the same image has been reported: its output went
\* under the first suffixed name
C26_Witness ==
    /\ ExportReported
    /\ ~report[1].cancelled
    /\ saved = <<SuffixedName(<<"a", 0>>, 1, ".png")>>
    /\ PlainName(<<"a", 0>>, ".png") \in dest

\* C30: the export attempts exactly the images that were loaded when it
\* started, in their order, each once, whatever Clear All or an add does to
\* the list meanwhile; unless cancelled it ends with succeeded + failed equal
\* to their number
C30_ExportsLoadedImages ==
    /\ einfo # << >> => (ei <= Len(batch) /\ einfo[1] = batch[ei])
    /\ (report # << >> /\ ~report[1].cancelled) =>
          /\ ei = Len(batch)
          /\ report[1].succeeded + report[1].failed = Len(batch)

-----------------------------------------------------------------------------
(* Properties of the threads' settings *)

\* the thread has just posted the result of a preview
PreviewPosted ==
    /\ Len(after_q') > Len(after_q)
    /\ after_q'[Len(after_q')].fn # "done"

\* C25: a preview thread and the export thread each work on a copy of the
\* settings taken when they start; the copy has every field; a change of the
\* settings made while a thread runs changes no thread's copy, and what the
\* thread does afterwards (the name it saves under, the preview it posts)
\* follows its copy
C25_ThreadsKeepTheirCopy ==
    [][/\ (epc = "begin" /\ epc' # "begin") =>
             export_settings' = <<app_settings>>
       /\ epc # "begin" => export_settings' = export_settings
       /\ \A t \in previews' \ previews : t.settings = app_settings
       /\ app_settings' # app_settings => previews' = previews
       /\ JustSaved =>
             LET name == saved'[Len(saved')]
             IN  name[Len(name)] = ext_map[export_settings[1].output_format]
       /\ PreviewPosted => after_q'[Len(after_q')].a \in previews]_vars

\* the format was changed while the export thread was processing an image
\* and a preview thread was running: both hold the earlier settings
C25_Witness ==
    /\ epc = "work"
    /\ export_settings[1].output_format = "PNG"
    /\ app_settings.output_format = "JPEG"
    /\ \E t \in previews : t.settings.output_format = "PNG"

-----------------------------------------------------------------------------
(* Properties of the preview *)

\* no preview is scheduled, running or waiting to be shown
PreviewsFinished ==
    /\ ~preview_timer
    /\ previews = {}
    /\ \A i \in DOMAIN after_q : after_q[i].fn = "done"

\* C29: nothing is displayed for a list that has been cleared; once all
\* preview work has finished, the preview displayed was computed from the
\* current settings and the selected image, so that no older result has
\* replaced a newer one
C29_PreviewIsLatest ==
    /\ image_infos = << >> => displayed = << >>
    /\ (PreviewsFinished /\ image_infos # << >> /\ displayed # << >>) =>
          /\ displayed[1].settings = app_settings
          /\ displayed[1].info = image_infos[1]

-----------------------------------------------------------------------------
(* Properties of the path clean-up *)

\* the characters collect_images is meant to take off an entry
Wrapping == Whitespace \cup {"\"", "'"}

\* the string has none of the wrapping characters left around the path
Bare(raw) == raw.lead = << >> /\ raw.trail = << >>

\* C24: the path looked up for an entry has no whitespace and no quote
\* character left at either end, in whatever order they were typed around it
C24_LookupIsBare ==
    \A i \in 1..Len(paths) :
        (i < idx /\ Range(paths[i].lead) \cup Range(paths[i].trail) \subseteq Wrapping)
            => Bare(Strip(paths[i]))

-----------------------------------------------------------------------------
(* Properties of the encoders *)

\* the format the settings ask for
Target(s) ==
    IF Upper(s.output_format) \in {"JPEG", "JPG"} THEN "JPEG"
    ELSE IF Upper(s.output_format) = "WEBP" THEN "WEBP" ELSE "PNG"

\* the encoded image is the buffer's colours laid over white
OverWhite(e) ==
    /\ e.image.mode = "RGB"
    /\ e.image.rgb = Append(enc_img.rgb, Op("over white", 255, 255, 255))

\* what C21 says of one encoding e of the buffer
AsClaimed(e) ==
    /\ e.format = Target(enc_settings)
    /\ e.format = "JPEG" =>
          /\ e.image.mode \notin AlphaModes
          /\ enc_img.mode \in AlphaModes => OverWhite(e)
    /\ e.format \in {"PNG", "WEBP"} => e.image = enc_img

-----------------------------------------------------------------------------
(* Properties of the gates *)

\* the calls pass k made
CallsOf(k) == {i \in 1..Len(calls) : PassOf(calls[i]) = k}

\* pass k ran: it made its one call, with these arguments
RanWith(k, op, a, b) ==
    /\ Cardinality(CallsOf(k)) = 1
    /\ \A i \in CallsOf(k) :
          calls[i].op = op /\ calls[i].a = a /\ calls[i].b = b

\* pass k ran iff cond, and then with these arguments
Gated(k, cond, op, a, b) ==
    IF cond THEN RanWith(k, op, a, b) ELSE CallsOf(k) = {}

\* C22: when process_image returns, each pass has run exactly when its own
\* field says so, whatever the other fields are: upscale iff
\* upscale_factor > 1, blur iff blur_radius > 0, unsharp mask iff
\* sharpen_amount > 0, downscale iff downscale_factor < 1.0, contrast,
\* saturation and brightness iff the factor is not 1.0, median filter iff
\* noise_reduction > 0 (of size 2 * noise_reduction + 1), erosion iff
\* edge_trim > 0
C22_GatesIndependent ==
    pc = "done" =>
        /\ IF settings.upscale_factor > 1
           THEN Cardinality(CallsOf(1)) = 1 ELSE CallsOf(1) = {}
        /\ Gated(2, settings.blur_radius > 0,
                 "GaussianBlur", settings.blur_radius, 0)
        /\ Gated(3, settings.sharpen_amount > 0,
                 "UnsharpMask", settings.sharpen_radius, settings.sharpen_amount)
        /\ IF settings.downscale_factor < 100
           THEN Cardinality(CallsOf(4)) = 1 ELSE CallsOf(4) = {}
        /\ Gated(5, settings.contrast # 100, "Contrast", settings.contrast, 0)
        /\ Gated(6, settings.saturation # 100, "Color", settings.saturation, 0)
        /\ Gated(7, settings.brightness # 100,
                 "Brightness", settings.brightness, 0)
        /\ Gated(8, settings.noise_reduction > 0,
                 "MedianFilter", 2 * settings.noise_reduction + 1, 0)
        /\ IF settings.edge_trim > 0
           THEN Cardinality(CallsOf(9)) = settings.edge_trim
           ELSE CallsOf(9) = {}

\* a run in which passes 2, 4, 6, 8 and 9 ran and passes 1, 3, 5 and 7 did
\* not
C22_Witness ==
    /\ pc = "done"
    /\ settings.upscale_factor = 1 /\ settings.blur_radius = 60
    /\ settings.sharpen_amount = 0 /\ settings.downscale_factor = 90
    /\ settings.contrast = 100 /\ settings.saturation = 105
    /\ settings.brightness = 100 /\ settings.noise_reduction = 1
    /\ settings.edge_trim = 2
    /\ {PassOf(calls[i]) : i \in 1..Len(calls)} = {2, 4, 6, 8, 9}
    /\ \E i \in CallsOf(8) : calls[i].a = 3

-----------------------------------------------------------------------------
(* Properties of pass 9: what it changes *)

\* |a - b|
Dist(a, b) == IF a >= b THEN a - b ELSE b - a

\* the pixels within t steps, in any of the eight directions, of a
\* transparent pixel: the transparent pixels after t minimum filters
Spread(T, w, h, t) ==
    {p \in Grid(w, h) :
        \E q \in T : Dist(p[1], q[1]) <= t /\ Dist(p[2], q[2]) <= t}

\* C23: pass 9 with edge_trim = t > 0 applies the 3x3 minimum filter to the
\* alpha channel t times and changes nothing else: the width, the height
\* and the colour values of the buffer stay as they were
C23_ErosionOnlyAlpha ==
    [][(pc = "erode" /\ settings.edge_trim > 0) =>
          LET t == settings.edge_trim
              before == heap[img]
              after == heap'[img']
          IN  /\ after.w = before.w /\ after.h = before.h
              /\ after.mode = before.mode
              /\ after.rgb = before.rgb
              /\ Len(calls') = Len(calls) + t
              /\ \A i \in (Len(calls) + 1)..Len(calls') :
                    calls'[i].op = "MinFilter" /\ calls'[i].a = 3
              /\ IF before.alpha = << >>
                 THEN /\ after.alpha = << >>
                      /\ after.T = Spread(before.T, before.w, before.h, t)
                 ELSE /\ after.T = before.T
                      /\ after.alpha = before.alpha
                            \o [i \in 1..t |-> Op("MinFilter", 3, 0, 0)]]_vars

\* a buffer whose colours were changed by an earlier pass and whose
\* transparent region grew by two pixels in pass 9 without filling the raster
C23_Witness ==
    /\ pc = "done"
    /\ settings.edge_trim = 2
    /\ Result.rgb # << >>
    /\ Result.alpha = << >>
    /\ orig.T # {}
    /\ Result.T = Spread(orig.T, orig.w, orig.h, 2)
    /\ Result.T # orig.T
    /\ Result.T # Grid(Result.w, Result.h)

-----------------------------------------------------------------------------
(* Properties of the presets *)

\* the slider fields of s
SliderFields(s) == [attr \in SliderAttrs |-> s[attr]]

\* 'Custom' has just been chosen in a preset menu
CustomChosen == presetOps' = presetOps + 1 /\ preset_menu' = "Custom"

\* C27: once a slider has been edited by hand, choosing 'Custom' makes the
\* active slider settings those of the last edit, whatever presets were
\* selected in between
C27_CustomRestoresManual ==
    [][(CustomChosen /\ hand_set # << >>) =>
          SliderFields(app_settings') = SliderFields(hand_set[1])]_vars

\* C28: the output format and the quality of the active settings are the
\* ones the format menu and the quality slider show
C28_FormatFollowsMenu ==
    /\ app_settings.output_format = format_menu
    /\ app_settings.jpeg_quality = quality_slider

====
